---- MODULE Spec2Model ----
(***************************************************************************)
(* Rebate simulator: tier assignment, per-cell aggregation, constraint     *)
(* builder and the optimize() call of RebateOptimizer / MLRebateOptimizer, *)
(* the /optimize endpoint of optimized_app.py, and the growth computation  *)
(* of the static calculators.                                              *)
(*                                                                         *)
(* Units.  Revenue: thousands (5000 is 5).  Growth-bin edges and growth    *)
(* thresholds: 1/1000 (0.08 is 80).  Rates, box bounds and min_increment:  *)
(* 1e-9 (0.01 is 10000000, 1e-9 is 1).  Elasticity: halves (0.5 is 1, 2.0  *)
(* is 4).  A float is a pair <<n, d>>: d > 0 is the finite value n/d,      *)
(* <<1, 0>> is +inf, <<-1, 0>> is -inf and <<0, 0>> is NaN, which is what  *)
(* IEEE division of n by zero yields.                                      *)
(***************************************************************************)
EXTENDS Integers, Sequences, FiniteSets, TLC

\* ------------------------------------------------------------------ bounds
MaxRows == 3
MaxCols == 3
MaxAccounts == 2
MaxIter == 2
\* the number of volume tiers of the deepest grid a caller configures
DeepRows == 16

\* ------------------------------------------------------ program constants
\* np.inf as a bin edge: larger than every finite edge and value of the model.
Inf == 2000000000
\* the no-rebate threshold 0.08 (growth_bins[c][1] <= 0.08), in 1/1000
NoRebateThreshold == 80
\* the box bounds of optimize(), in 1e-9
MinRate == 10000000
MaxRate == 150000000
ExemptUpper == 1
\* min_increment=0.01 passed by optimize(), and the step of the initial guess
MinIncrement == 10000000
GuessStep == 10000000
\* RebateOptimizer(DATA_FILE, elasticity=2.0) in get_optimizer, in halves
DefaultElasticity == 4

\* ------------------------------------------------------------------ floats
PosInf == <<1, 0>>
NegInf == <<-1, 0>>
NaN == <<0, 0>>

IsNaN(x) == x[2] = 0 /\ x[1] = 0
IsPosInf(x) == x[2] = 0 /\ x[1] > 0
IsNegInf(x) == x[2] = 0 /\ x[1] < 0
IsFinite(x) == x[2] > 0

Sign(n) == IF n > 0 THEN 1 ELSE IF n < 0 THEN -1 ELSE 0

\* a / b on float64 columns: x/0 is +inf, -inf or NaN by the sign of x
FDiv(a, b) == IF b = 0 THEN <<Sign(a), 0>>
              ELSE IF b < 0 THEN <<-a, -b>> ELSE <<a, b>>

\* a < b on floats; every comparison with NaN is false
FLt(a, b) ==
    IF IsNaN(a) \/ IsNaN(b) THEN FALSE
    ELSE IF IsPosInf(a) THEN FALSE
    ELSE IF IsNegInf(a) THEN ~IsNegInf(b)
    ELSE IF IsPosInf(b) THEN TRUE
    ELSE IF IsNegInf(b) THEN FALSE
    ELSE a[1] * b[2] < b[1] * a[2]

FEq(a, b) ==
    IF IsNaN(a) \/ IsNaN(b) THEN FALSE
    ELSE IF a[2] = 0 \/ b[2] = 0 THEN a = b
    ELSE a[1] * b[2] = b[1] * a[2]

FLe(a, b) == FLt(a, b) \/ FEq(a, b)

\* a bin edge of the given scale as a float
EdgeFloat(e, scale) == IF e = Inf THEN PosInf ELSE <<e, scale>>

\* ------------------------------------------------------------------ pd.cut
\* numpy searchsorted on increasing edges: side='left' counts the edges < x,
\* side='right' the edges <= x.
SearchSorted(edges, x, side) ==
    Cardinality({i \in DOMAIN edges :
                    IF side = "left" THEN FLt(edges[i], x) ELSE FLe(edges[i], x)})

\* pd.cut refuses decreasing edges ("bins must increase monotonically") and
\* repeated edges ("Bin edges must be unique") unless there are exactly two.
CutRaises(edges) ==
    \/ \E i \in 1..(Len(edges) - 1) : FLt(edges[i + 1], edges[i])
    \/ /\ Len(edges) # 2
       /\ \E i, j \in DOMAIN edges : i < j /\ FEq(edges[i], edges[j])

\* the integer code pd.cut gives x (.cat.codes, or labels=False with NaN as -1)
Cut(x, edges, right, include_lowest) ==
    LET ids == IF include_lowest /\ FEq(x, edges[1]) THEN 1
               ELSE SearchSorted(edges, x, IF right THEN "left" ELSE "right")
    IN IF IsNaN(x) \/ ids = Len(edges) \/ ids = 0 THEN -1 ELSE ids - 1

\* [b[0] for b in bins] + [bins[-1][1]]
Edges(bins, scale) ==
    [i \in 1..(Len(bins) + 1) |->
        IF i <= Len(bins) THEN EdgeFloat(bins[i][1], scale)
        ELSE EdgeFloat(bins[Len(bins)][2], scale)]
\* --------------------------------------------------------------- set_bins
\* None for an attribute that holds a table, and a table of rows
Unset == [defined |-> FALSE, rows |-> <<>>]
Table(rows) == [defined |-> TRUE, rows |-> rows]

\* (curryr_rev - prevyr_rev) / prevyr_rev, unguarded
GrowthVal(cur, prev) == FDiv(cur - prev, prev)

\* df_base.copy() with the growth_val column
WithGrowth(base) ==
    [i \in DOMAIN base |->
        [idx |-> i, curryr_rev |-> base[i].curryr_rev,
         prevyr_rev |-> base[i].prevyr_rev,
         growth_val |-> GrowthVal(base[i].curryr_rev, base[i].prevyr_rev)]]

\* the volume code counted from 1 instead of 0
VIdxOneBased(cur, v_edges) == Cut(<<cur, 1>>, v_edges, TRUE, FALSE) + 1

\* pd.cut(curryr_rev, bins=v_edges, right=True).cat.codes
VIdx(cur, v_edges) == Cut(<<cur, 1>>, v_edges, TRUE, FALSE)
\* pd.cut(growth_val, bins=g_edges, right=False).cat.codes
GIdx(growth, g_edges) == Cut(growth, g_edges, FALSE, FALSE)

WithVIdx(rows, v_edges) ==
    [i \in DOMAIN rows |->
        [idx |-> rows[i].idx, curryr_rev |-> rows[i].curryr_rev,
         prevyr_rev |-> rows[i].prevyr_rev, growth_val |-> rows[i].growth_val,
         v_idx |-> VIdx(rows[i].curryr_rev, v_edges)]]

WithGIdx(rows, g_edges) ==
    [i \in DOMAIN rows |->
        [idx |-> rows[i].idx, curryr_rev |-> rows[i].curryr_rev,
         prevyr_rev |-> rows[i].prevyr_rev, growth_val |-> rows[i].growth_val,
         v_idx |-> rows[i].v_idx,
         g_idx |-> GIdx(rows[i].growth_val, g_edges)]]

\* df[(v_idx >= 0) & (g_idx >= 0)]
ValidRow(row) == row.v_idx >= 0 /\ row.g_idx >= 0
FilterValid(rows) == SelectSeq(rows, ValidRow)

RECURSIVE SumRev(_, _, _, _)
\* the sum of field `col` over the rows of cell (v, g)
SumRev(rows, v, g, col) ==
    IF rows = <<>> THEN 0
    ELSE (IF rows[1].v_idx = v /\ rows[1].g_idx = g
          THEN (IF col = "curryr_rev" THEN rows[1].curryr_rev
                ELSE rows[1].prevyr_rev)
          ELSE 0) + SumRev(Tail(rows), v, g, col)

\* the cells of a rows x cols grid in row-major order, as <<v, g>>
Cells(rows, cols) ==
    [k \in 1..(rows * cols) |-> <<(k - 1) \div cols, (k - 1) % cols>>]

\* a group for every cell of the grid, occupied or not
GroupBySumEveryCell(rows, nrows, ncols, col) ==
    LET all == Cells(nrows, ncols)
    IN [k \in DOMAIN all |->
          [v_idx |-> all[k][1], g_idx |-> all[k][2],
           rev |-> SumRev(rows, all[k][1], all[k][2], col)]]

\* groupby(['v_idx', 'g_idx'])[col].sum().reset_index(): one row per occupied
\* cell, sorted by (v_idx, g_idx)
GroupBySum(rows, nrows, ncols, col) ==
    LET Occupied(c) == \E i \in DOMAIN rows :
                          rows[i].v_idx = c[1] /\ rows[i].g_idx = c[2]
        occ == SelectSeq(Cells(nrows, ncols), Occupied)
    IN [k \in DOMAIN occ |->
          [v_idx |-> occ[k][1], g_idx |-> occ[k][2],
           rev |-> SumRev(rows, occ[k][1], occ[k][2], col)]]

\* df_base if df_processed were df_base itself and no copy: the growth_val
\* column set_bins adds is added to df_base
BaseAfterSetBinsShared(base) ==
    [i \in DOMAIN base |->
        [curryr_rev |-> base[i].curryr_rev, prevyr_rev |-> base[i].prevyr_rev,
         growth_val |-> GrowthVal(base[i].curryr_rev, base[i].prevyr_rev)]]

\* df_base after set_bins: df_processed is self.df_base.copy(), a table of its
\* own, so the columns set_bins adds and the rows it drops leave df_base as
\* it was
BaseAfterSetBins(base) == base

\* set_bins(volume_bins, growth_bins) on an optimizer whose aggregate is
\* old_agg: the attributes after the call, and whether pd.cut raised.  The
\* bins and the copied table are assigned before the first pd.cut, so a call
\* that raises leaves them changed and the aggregate as it was.
SetBinsResult(base, old_agg, vb, gb, col) ==
    LET v_edges == Edges(vb, 1)
        g_edges == Edges(gb, 1000)
        grown == WithGrowth(base)
    IN IF CutRaises(v_edges)
       THEN [volume_bins |-> vb, growth_bins |-> gb, df_processed |-> Table(grown),
             agg_data |-> old_agg, raised |-> TRUE]
       ELSE IF CutRaises(g_edges)
       THEN [volume_bins |-> vb, growth_bins |-> gb,
             df_processed |-> Table(WithVIdx(grown, v_edges)),
             agg_data |-> old_agg, raised |-> TRUE]
       ELSE LET kept == FilterValid(WithGIdx(WithVIdx(grown, v_edges), g_edges))
            IN [volume_bins |-> vb, growth_bins |-> gb, df_processed |-> Table(kept),
                agg_data |-> Table(GroupBySum(kept, Len(vb), Len(gb), col)),
                raised |-> FALSE]
\* -------------------------------------------------------- get_constraints
\* idx(r, c): the index of cell (r, c) in the flattened, row-major vector
Idx(r, c, cols) == r * cols + c

\* growth_bins[c][1] <= 0.08 (c zero-based): a no-rebate column
Exempt(gb, c) == gb[c + 1][2] <= NoRebateThreshold

\* np.zeros(num_vars) with +1 at index plus and -1 at index minus
CoefRow(num_vars, plus, minus) ==
    [[k \in 0..(num_vars - 1) |-> 0] EXCEPT ![plus] = 1, ![minus] = -1]

\* the volume loop without its `continue` for exempt columns
VolumePairsNoSkip(rows, cols, gb) ==
    LET Keep(rc) == rc[1] >= 1
    IN SelectSeq(Cells(rows, cols), Keep)

\* the cells the volume loop visits and keeps, in loop order
VolumePairs(rows, cols, gb) ==
    LET Keep(rc) == rc[1] >= 1 /\ ~Exempt(gb, rc[2])
    IN SelectSeq(Cells(rows, cols), Keep)

\* the growth loop without its second `continue` (previous column exempt)
GrowthPairsNoPrevSkip(rows, cols, gb) ==
    LET Keep(rc) == rc[2] >= 1 /\ ~Exempt(gb, rc[2])
    IN SelectSeq(Cells(rows, cols), Keep)

\* the cells the growth loop visits and keeps, in loop order
GrowthPairs(rows, cols, gb) ==
    LET Keep(rc) == rc[2] >= 1 /\ ~Exempt(gb, rc[2]) /\ ~Exempt(gb, rc[2] - 1)
    IN SelectSeq(Cells(rows, cols), Keep)

NoConstraint == [none |-> TRUE, A |-> <<>>, lb |-> <<>>, ub |-> <<>>]

\* get_constraints without `if not A_rows: return None`
GetConstraintsNeverNone(vb, gb, min_increment) ==
    LET rows == Len(vb)
        cols == Len(gb)
        num_vars == rows * cols
        vp == VolumePairs(rows, cols, gb)
        gp == GrowthPairs(rows, cols, gb)
        A_rows == [k \in DOMAIN vp |->
                     CoefRow(num_vars, Idx(vp[k][1], vp[k][2], cols),
                             Idx(vp[k][1] - 1, vp[k][2], cols))]
                  \o [k \in DOMAIN gp |->
                        CoefRow(num_vars, Idx(gp[k][1], gp[k][2], cols),
                                Idx(gp[k][1], gp[k][2] - 1, cols))]
    IN [none |-> FALSE, A |-> A_rows,
        lb |-> [k \in DOMAIN A_rows |-> min_increment],
        ub |-> [k \in DOMAIN A_rows |-> Inf]]

\* get_constraints(min_increment): None, or LinearConstraint(A_rows, lb, ub)
GetConstraints(vb, gb, min_increment) ==
    LET rows == Len(vb)
        cols == Len(gb)
        num_vars == rows * cols
        vp == VolumePairs(rows, cols, gb)
        gp == GrowthPairs(rows, cols, gb)
        A_vol == [k \in DOMAIN vp |->
                    CoefRow(num_vars, Idx(vp[k][1], vp[k][2], cols),
                            Idx(vp[k][1] - 1, vp[k][2], cols))]
        A_gro == [k \in DOMAIN gp |->
                    CoefRow(num_vars, Idx(gp[k][1], gp[k][2], cols),
                            Idx(gp[k][1], gp[k][2] - 1, cols))]
        A_rows == A_vol \o A_gro
    IN IF A_rows = <<>> THEN NoConstraint
       ELSE [none |-> FALSE, A |-> A_rows,
             lb |-> [k \in DOMAIN A_rows |-> min_increment],
             ub |-> [k \in DOMAIN A_rows |-> Inf]]

\* ---------------------------------------------------------------- optimize
\* optimize() giving every cell the [0.01, 0.15] box
BoundsNoPin(vb, gb) ==
    [k \in 0..(Len(vb) * Len(gb) - 1) |-> <<MinRate, MaxRate>>]

\* the box bounds optimize() gives each flattened cell
Bounds(vb, gb) ==
    LET cols == Len(gb)
    IN [k \in 0..(Len(vb) * cols - 1) |->
          IF Exempt(gb, k % cols) THEN <<0, ExemptUpper>> ELSE <<MinRate, MaxRate>>]

\* the initial guess of optimize(): 0.01 + (r + c) * 0.01, 0 in exempt columns
InitialGuess(vb, gb) ==
    LET cols == Len(gb)
    IN [k \in 0..(Len(vb) * cols - 1) |->
          IF Exempt(gb, k % cols) THEN 0
          ELSE MinRate + ((k \div cols) + (k % cols)) * GuessStep]

\* The float64 values of the initial guess.  A float64 in [2^-7, 1) is a
\* multiple of 2^-59: it is held as that multiple, a natural number below
\* 2^60 written in three digits <<a2, a1, a0>> of base 2^24.
Limb == 16777216

\* the float64 nearest to 0.01: 0x1.47ae147ae147bp-7 = 5764607523034235 * 2^-59
Double001 == <<20, 8053063, 11408507>>

\* the float64 nearest to 0.15: 0x1.3333333333333p-3 = 86469112845513520 * 2^-59
Double015 == <<307, 3355443, 3355440>>

\* the float64 a decimal literal of optimize() stands for: 0.01 (bound and
\* min_increment), 0.15 and 0.0
DoubleOf(v) ==
    IF v = MinRate THEN Double001
    ELSE IF v = MaxRate THEN Double015
    ELSE <<0, 0, 0>>

\* the digits after the carries are passed on
Carry(x) ==
    LET t1 == x[2] + (x[3] \div Limb)
    IN <<x[1] + (t1 \div Limb), t1 % Limb, x[3] % Limb>>

BigAdd(x, y) == Carry(<<x[1] + y[1], x[2] + y[2], x[3] + y[3]>>)
BigMulSmall(x, k) == Carry(<<x[1] * k, x[2] * k, x[3] * k>>)
BigGe(x, y) ==
    \/ x[1] > y[1]
    \/ x[1] = y[1] /\ x[2] > y[2]
    \/ x[1] = y[1] /\ x[2] = y[2] /\ x[3] >= y[3]

\* the number of binary digits of n < 2^12
BitLen(n) == CHOOSE b \in 0..12 : n < 2^b /\ (b = 0 \/ n >= 2^(b - 1))

\* an exact result rounded to the 53 significant bits of a float64, ties to
\* the even neighbour
RoundDouble(x) ==
    LET s == 48 + BitLen(x[1]) - 53
    IN IF x[1] = 0 \/ s <= 0 THEN x
       ELSE LET r == x[3] % (2^s)
                half == 2^(s - 1)
                odd == (x[3] \div (2^s)) % 2 = 1
                up == r > half \/ (r = half /\ odd)
            IN Carry(<<x[1], x[2], x[3] - r + (IF up THEN 2^s ELSE 0)>>)

\* 0.01 + (r + c) * 0.01 as Python computes it: the product rounded, then
\* the sum rounded
DoubleGuess(r, c) ==
    RoundDouble(BigAdd(Double001, RoundDouble(BigMulSmall(Double001, r + c))))

\* np.array(initial_guess) of optimize() as float64 values
InitialGuessDouble(vb, gb) ==
    LET cols == Len(gb)
    IN [k \in 0..(Len(vb) * cols - 1) |->
          IF Exempt(gb, k % cols) THEN <<0, 0, 0>>
          ELSE DoubleGuess(k \div cols, k % cols)]

\* constraints_arg = [cons] if cons else []
ConstraintsArg(cons) == IF cons.none THEN <<>> ELSE <<cons>>

\* the projected revenue without the rebate cost taken off
NetRevenueNoCost(rev, elasticity, rate) ==
    LET xm == rate \div 1000000
    IN rev * (2000 + elasticity * xm) * 1000

\* base * (1 + elasticity * rate) * (1 - rate) for one aggregate row, as a
\* fixed-point number of scale 2 * 1000 * 1000: the rate is read in 1/1000
\* and the elasticity in halves
NetRevenue(rev, elasticity, rate) ==
    LET xm == rate \div 1000000
    IN rev * (2000 + elasticity * xm) * (1000 - xm)

RECURSIVE SumNet(_, _, _, _)
SumNet(agg_rows, flat_rates, cols, elasticity) ==
    IF agg_rows = <<>> THEN 0
    ELSE NetRevenue(agg_rows[1].rev, elasticity,
                    flat_rates[Idx(agg_rows[1].v_idx, agg_rows[1].g_idx, cols)])
         + SumNet(Tail(agg_rows), flat_rates, cols, elasticity)

\* objective_function(flat_rates) on an optimizer with these attributes: the
\* value, or raised when reshape or the grid lookup fails
ObjectiveFunction(flat_rates, vb, gb, agg, elasticity) ==
    LET rows == Len(vb)
        cols == Len(gb)
        n == Cardinality(DOMAIN flat_rates)
    IN IF \/ ~agg.defined
          \/ n # rows * cols
          \/ \E i \in DOMAIN agg.rows :
                agg.rows[i].v_idx >= rows \/ agg.rows[i].g_idx >= cols
       THEN [raised |-> TRUE, value |-> 0]
       ELSE [raised |-> FALSE,
             value |-> 0 - SumNet(agg.rows, flat_rates, cols, elasticity)]

\* what minimize() hands back: the last iterate, its objective value and
\* whether the solver reports success
OptimizeResult(x, fun, success) == [x |-> x, fun |-> fun, success |-> success]

\* result.x.reshape((rows, cols))
Reshape(flat, rows, cols) ==
    [r \in 0..(rows - 1) |-> [c \in 0..(cols - 1) |-> flat[Idx(r, c, cols)]]]

\* the value optimize() returns for a solver result: both branches of
\* `if result.success` return (best_grid, -result.fun)
OptimizeReturn(result, rows, cols) ==
    IF result.success
    THEN [best_grid |-> Reshape(result.x, rows, cols), max_rev |-> 0 - result.fun]
    ELSE [best_grid |-> Reshape(result.x, rows, cols), max_rev |-> 0 - result.fun]
\* the iterates the solver is let to visit from initial guess x0 in box b on
\* a grid of the given width: x0, the upper corner of the box, and the ladder
\* that descends from the maximum rate by one increment per tier (0 in the
\* pinned cells)
UpperCorner(b) == [k \in DOMAIN b |-> b[k][2]]

Ladder(b, cols) ==
    LET rows == Cardinality(DOMAIN b) \div cols
    IN [k \in DOMAIN b |->
          IF b[k][2] = ExemptUpper THEN 0
          ELSE MaxRate - ((rows - 1 - (k \div cols)) + (cols - 1 - (k % cols)))
                           * MinIncrement]

Iterates(x0, b, cols) == {x0, UpperCorner(b), Ladder(b, cols)}

\* ------------------------------------------------------------------ inputs
\* n contiguous volume bins from 0, the last unbounded: (0,10),(10,20),..
VolBins(n) ==
    [i \in 1..n |-> <<10 * (i - 1), IF i = n THEN Inf ELSE 10 * i>>]

\* n contiguous growth bins with edges 0, 0.08, 0.15, 0.20, .., the last
\* unbounded
GrowthEdge(i) == IF i = 1 THEN 0 ELSE IF i = 2 THEN 80 ELSE 150 + 50 * (i - 3)
GrowthBins(n) ==
    [i \in 1..n |-> <<GrowthEdge(i), IF i = n THEN Inf ELSE GrowthEdge(i + 1)>>]

\* ill-formed volume configurations
BadVolumeBins ==
    {<< <<0, 10>>, <<20, Inf>> >>,       \* a gap between the bins
     << <<10, 20>>, <<0, 10>> >>,        \* decreasing lower edges
     << <<5, 15>> >>}                    \* one bounded bin, from 5

VolumeBinConfigs == {VolBins(n) : n \in 1..MaxRows} \cup BadVolumeBins

GrowthBinConfigs ==
    {GrowthBins(n) : n \in 1..MaxCols}
    \cup {<< <<0, 50>>, <<50, 80>> >>,                    \* every column exempt
          << <<0 - 1000, 0>>, <<0, 80>>, <<80, Inf>> >>,  \* two exempt columns
          << <<80, 150>>, <<150, Inf>> >>,                \* no exempt column
          << <<0, 200>>, <<100, 80>>, <<150, Inf>> >>,    \* an exempt column between two others
          << <<80, Inf>>, <<0, 80>> >>}                   \* decreasing lower edges

\* the (volume_bins, growth_bins) pairs a caller passes: every growth
\* configuration with the contiguous volume bins, the ill-formed volume
\* configurations with the two-column growth bins, and two deep single-column
\* grids
BinConfigs ==
    ({VolBins(n) : n \in 1..MaxRows} \X GrowthBinConfigs)
    \cup (BadVolumeBins \X {GrowthBins(2)})
    \cup {<<VolBins(DeepRows), GrowthBins(1)>>, <<VolBins(DeepRows - 1), GrowthBins(1)>>}

Account(cur, prev) == [curryr_rev |-> cur, prevyr_rev |-> prev]

AccountPool == {Account(15, 12), Account(5, 0), Account(25, 50), Account(10, 10)}

RECURSIVE SeqsUpTo(_, _)
SeqsUpTo(S, n) ==
    IF n = 0 THEN {<<>>}
    ELSE LET shorter == SeqsUpTo(S, n - 1)
         IN shorter \cup {Append(t, a) : t \in shorter, a \in S}

\* the account tables read by pd.read_csv: one to MaxAccounts accounts of the
\* pool, one table for each choice of accounts with repetition
AccountTables ==
    LET Ordered(t) == \A i \in 1..(Len(t) - 1) :
                         \/ t[i].curryr_rev < t[i + 1].curryr_rev
                         \/ /\ t[i].curryr_rev = t[i + 1].curryr_rev
                            /\ t[i].prevyr_rev <= t[i + 1].prevyr_rev
    IN {t \in SeqsUpTo(AccountPool, MaxAccounts) \ {<<>>} : Ordered(t)}

\* elasticity=0.5 (the constructor's default) and 2.0, in halves
Elasticities == {1, DefaultElasticity}

MinIncrements == {0, MinIncrement, 2 * MinIncrement}

\* ------------------------------------------------------------------- state
VARIABLES
    df_base, elasticity, volume_bins, growth_bins, df_processed, agg_data,
    phase, cons, cons_arg, bounds, initial_guess, constraints_arg,
    x, fun, nit, result, ret,
    loaded, req,
    st_cur, st_prev, st_vb, st_gb, st_app, st_static, st_enum, st_opt, st_table,
    g_pc, g_src, g_from, grid_data, parsed, g_cur, g_prev, g_tiers, rebate

obj_vars == <<df_base, elasticity, volume_bins, growth_bins, df_processed, agg_data>>
call_vars == <<cons, cons_arg, bounds, initial_guess, constraints_arg, x, fun, nit,
               result, ret>>
srv_vars == <<loaded, req>>
st_vars == <<st_cur, st_prev, st_vb, st_gb, st_app, st_static, st_enum, st_opt,
             st_table>>
grid_vars == <<g_pc, g_src, g_from, grid_data, parsed, g_cur, g_prev, g_tiers, rebate>>
vars == <<obj_vars, phase, call_vars, srv_vars, st_vars, grid_vars>>

NoResult == [x |-> <<>>, fun |-> 0, success |-> FALSE]
NoReturn == [best_grid |-> <<>>, max_rev |-> 0]

\* the /optimize requests in flight at once (Flask serves each in a thread)
Requests == {1, 2}

NoSeen == [elasticity |-> 0, volume_bins |-> <<>>, growth_bins |-> <<>>,
           agg_data |-> Unset]
NoResponse == [status |-> 0, max_revenue |-> 0, baseline_revenue |-> 0,
               grid_headers |-> <<>>, grid_rows |-> <<>>]

\* a request thread between two requests
IdleRequest ==
    [pc |-> "idle", elasticity |-> 0, volume_bins |-> <<>>, growth_bins |-> <<>>,
     own_agg |-> Unset, rows |-> 0, cols |-> 0, bounds |-> <<>>,
     initial_guess |-> <<>>, x |-> <<>>, fun |-> 0, nit |-> 0,
     seen |-> NoSeen, result |-> NoResult, ret |-> NoReturn, response |-> NoResponse]

\* no static calculation has run
NoStaticRow == [done |-> FALSE, raised |-> FALSE, growth |-> NaN,
                v_idx |-> 0 - 1, g_idx |-> 0 - 1]
NoStatic ==
    /\ st_cur = NaN /\ st_prev = NaN /\ st_vb = <<>> /\ st_gb = <<>>
    /\ st_app = NoStaticRow /\ st_static = NoStaticRow /\ st_enum = NoStaticRow
    /\ st_opt = NoStaticRow
    /\ st_table = Unset

\* no grid table is being handled
NoSource == [volume_bins |-> <<>>, growth_bins |-> <<>>, best_grid |-> <<>>]
NoParse ==
    [done |-> FALSE, raised |-> FALSE, volume_bins |-> <<>>, growth_bins |-> <<>>,
     rebate_rates |-> <<>>]
NoRebate == [done |-> FALSE, raised |-> FALSE, value |-> NaN]
NoGrid ==
    /\ g_pc = "off" /\ g_src = NoSource /\ g_from = "none" /\ grid_data = <<>>
    /\ parsed = NoParse /\ g_cur = NaN /\ g_prev = NaN
    /\ g_tiers = NoStaticRow /\ rebate = NoRebate

\* the locals of a call that has not started; cons_arg is the min_increment
\* of the last get_constraints call, -1 before the first
FreshCall ==
    /\ cons = NoConstraint /\ cons_arg = 0 - 1
    /\ bounds = <<>> /\ initial_guess = <<>> /\ constraints_arg = <<>>
    /\ x = <<>> /\ fun = 0 /\ nit = 0
    /\ result = NoResult /\ ret = NoReturn

\* RebateOptimizer(data_path, elasticity): the table is read, the bins and
\* the processed table are None, agg_data is not an attribute yet
Init ==
    /\ df_base \in AccountTables
    /\ elasticity \in Elasticities
    /\ volume_bins = <<>> /\ growth_bins = <<>>
    /\ df_processed = Unset /\ agg_data = Unset
    /\ phase = "new"
    /\ FreshCall
    /\ loaded = TRUE
    /\ req = [p \in Requests |-> IdleRequest]
    /\ NoStatic
    /\ NoGrid

\* optimizer.set_bins(volume_bins, growth_bins), between two optimize() calls
SetBins(vb, gb) ==
    /\ phase \in {"new", "configured", "idle", "error"}
    /\ \E after \in {SetBinsResult(df_base, agg_data, vb, gb, "curryr_rev")} :
          /\ volume_bins' = after.volume_bins
          /\ growth_bins' = after.growth_bins
          /\ df_processed' = after.df_processed
          /\ agg_data' = after.agg_data
          /\ phase' = IF after.raised THEN "error" ELSE "configured"
    /\ cons' = NoConstraint /\ cons_arg' = 0 - 1
    /\ bounds' = <<>> /\ initial_guess' = <<>> /\ constraints_arg' = <<>>
    /\ x' = <<>> /\ fun' = 0 /\ nit' = 0
    /\ result' = NoResult /\ ret' = NoReturn
    /\ df_base' = BaseAfterSetBins(df_base)
    /\ UNCHANGED <<elasticity, srv_vars, st_vars, grid_vars>>

\* optimizer.get_constraints(min_increment) on a configured optimizer
CallGetConstraints(mi) ==
    /\ phase = "configured"
    /\ cons' = GetConstraints(volume_bins, growth_bins, mi)
    /\ cons_arg' = mi
    /\ UNCHANGED <<obj_vars, phase, bounds, initial_guess, constraints_arg, x, fun,
                   nit, result, ret, srv_vars, st_vars, grid_vars>>

\* optimize() on an optimizer whose bins are None: len(self.volume_bins)
\* raises before anything is built
OptimizeUnset ==
    /\ phase \in {"new", "error"}
    /\ volume_bins = <<>>
    /\ phase' = "error"
    /\ UNCHANGED <<obj_vars, call_vars, srv_vars, st_vars, grid_vars>>

\* optimize() up to the call of minimize(): bounds, initial guess and
\* constraints are built and the solver evaluates the objective at the guess.
\* Nothing in optimize() asks whether the last set_bins succeeded.
OptimizeStart ==
    /\ phase \in {"configured", "idle", "error"}
    /\ volume_bins # <<>>
    /\ \E guess \in {InitialGuess(volume_bins, growth_bins)},
          c \in {GetConstraints(volume_bins, growth_bins, MinIncrement)} :
        \E f \in {ObjectiveFunction(guess, volume_bins, growth_bins, agg_data,
                                    elasticity)} :
          /\ bounds' = Bounds(volume_bins, growth_bins)
          /\ initial_guess' = guess
          /\ cons' = c
          /\ cons_arg' = MinIncrement
          /\ constraints_arg' = ConstraintsArg(c)
          /\ x' = guess
          /\ fun' = f.value
          /\ phase' = IF f.raised THEN "error" ELSE "running"
    /\ nit' = 0
    /\ UNCHANGED <<obj_vars, result, ret, srv_vars, st_vars, grid_vars>>

\* one iteration of trust-constr: the solver moves to another iterate and
\* evaluates the objective there
SolverIterate ==
    /\ phase = "running"
    /\ nit < MaxIter
    /\ \E nx \in Iterates(initial_guess, bounds, Len(growth_bins)) :
          \E f \in {ObjectiveFunction(nx, volume_bins, growth_bins, agg_data,
                                      elasticity)} :
             /\ x' = nx
             /\ fun' = f.value
             /\ phase' = IF f.raised THEN "error" ELSE "running"
    /\ nit' = nit + 1
    /\ UNCHANGED <<obj_vars, cons, cons_arg, bounds, initial_guess, constraints_arg,
                   result, ret, srv_vars, st_vars, grid_vars>>

\* minimize() returns, reporting success or not, and optimize() returns
SolverStop(success) ==
    /\ phase = "running"
    /\ result' = OptimizeResult(x, fun, success)
    /\ ret' = OptimizeReturn(result', Len(volume_bins), Len(growth_bins))
    /\ phase' = IF success THEN "converged" ELSE "failed"
    /\ UNCHANGED <<obj_vars, cons, cons_arg, bounds, initial_guess, constraints_arg,
                   x, fun, nit, srv_vars, st_vars, grid_vars>>

\* the caller is done with what optimize() returned
Finish ==
    /\ phase \in {"converged", "failed"}
    /\ phase' = "idle"
    /\ cons' = NoConstraint /\ cons_arg' = 0 - 1
    /\ bounds' = <<>> /\ initial_guess' = <<>> /\ constraints_arg' = <<>>
    /\ x' = <<>> /\ fun' = 0 /\ nit' = 0
    /\ result' = NoResult /\ ret' = NoReturn
    /\ UNCHANGED <<obj_vars, srv_vars, st_vars, grid_vars>>

Next ==
    \/ \E cfg \in BinConfigs : SetBins(cfg[1], cfg[2])
    \/ \E mi \in MinIncrements : CallGetConstraints(mi)
    \/ OptimizeUnset
    \/ OptimizeStart
    \/ SolverIterate
    \/ \E success \in BOOLEAN : SolverStop(success)
    \/ Finish

Spec == Init /\ [][Next]_vars
\* ------------------------------------------------- optimized_app /optimize
\* what the clients of the server send: an elasticity and a bin configuration
RequestElasticities == Elasticities
RequestBinConfigs == {<<VolBins(1), GrowthBins(2)>>, <<VolBins(2), GrowthBins(2)>>}

\* DummyDataGpot2.csv as the server finds it
ServerTables == {<<Account(15, 12), Account(5, 0)>>}

\* round to the nearest multiple of unit, ties to the even multiple (np.round,
\* and the .0f format), as a count of units
RoundHalfEven(v, unit) ==
    LET q == v \div unit
        r == v % unit
    IN IF 2 * r > unit THEN q + 1
       ELSE IF 2 * r < unit THEN q
       ELSE IF q % 2 = 0 THEN q ELSE q + 1

RECURSIVE SumCol(_)
\* agg_data['curryr_rev'].sum()
SumCol(agg_rows) ==
    IF agg_rows = <<>> THEN 0 ELSE agg_rows[1].rev + SumCol(Tail(agg_rows))

\* the answer of /optimize to what optimize() returned: the error answer when
\* best_grid is None or formatting raises, else the grid in whole percents
\* with its revenue figures.  max_revenue has the scale of the objective.
OptimizeResponse(r, vb, gb, agg) ==
    LET nrows == Cardinality(DOMAIN r.best_grid)
    IN IF r.best_grid = <<>> \/ nrows > Len(vb) \/ ~agg.defined
       THEN [status |-> 500, max_revenue |-> 0, baseline_revenue |-> 0,
             grid_headers |-> <<>>, grid_rows |-> <<>>]
       ELSE [status |-> 200,
             max_revenue |-> r.max_rev,
             baseline_revenue |-> SumCol(agg.rows),
             grid_headers |->
                [c \in DOMAIN gb |->
                    <<RoundHalfEven(gb[c][1], 10),
                      IF gb[c][2] = Inf THEN Inf ELSE RoundHalfEven(gb[c][2], 10)>>],
             grid_rows |->
                [i \in 0..(nrows - 1) |->
                    [label |-> vb[i + 1],
                     cells |-> [c \in DOMAIN r.best_grid[i] |->
                                  RoundHalfEven(r.best_grid[i][c], 10000000)]]]]

ErrorResponse ==
    [status |-> 500, max_revenue |-> 0, baseline_revenue |-> 0,
     grid_headers |-> <<>>, grid_rows |-> <<>>]

\* what one objective evaluation reads from the shared optimizer
Seen == [elasticity |-> elasticity, volume_bins |-> volume_bins,
         growth_bins |-> growth_bins, agg_data |-> agg_data]

seq_vars == <<phase, call_vars, st_vars, grid_vars>>

ServerInit ==
    /\ df_base \in ServerTables
    /\ elasticity = 0
    /\ volume_bins = <<>> /\ growth_bins = <<>>
    /\ df_processed = Unset /\ agg_data = Unset
    /\ phase = "new"
    /\ FreshCall
    /\ loaded = FALSE
    /\ req = [p \in Requests |-> IdleRequest]
    /\ NoStatic
    /\ NoGrid

\* a request arrives: its JSON is parsed and get_optimizer() builds the
\* global optimizer if there is none
Receive(p, e, cfg) ==
    /\ req[p].pc = "idle"
    /\ req' = [req EXCEPT ![p] = [IdleRequest EXCEPT !.pc = "have_opt",
                                     !.elasticity = e, !.volume_bins = cfg[1],
                                     !.growth_bins = cfg[2]]]
    /\ loaded' = TRUE
    /\ elasticity' = IF loaded THEN elasticity ELSE DefaultElasticity
    /\ UNCHANGED <<df_base, volume_bins, growth_bins, df_processed, agg_data, seq_vars>>

\* opt.elasticity = elasticity
SetElasticity(p) ==
    /\ req[p].pc = "have_opt"
    /\ elasticity' = req[p].elasticity
    /\ req' = [req EXCEPT ![p].pc = "elasticity_set"]
    /\ UNCHANGED <<df_base, volume_bins, growth_bins, df_processed, agg_data,
                   loaded, seq_vars>>

\* opt.set_bins(volume_bins, growth_bins)
ServerSetBins(p) ==
    /\ req[p].pc = "elasticity_set"
    /\ \E after \in {SetBinsResult(df_base, agg_data, req[p].volume_bins,
                                    req[p].growth_bins, "curryr_rev")} :
          /\ volume_bins' = after.volume_bins
          /\ growth_bins' = after.growth_bins
          /\ df_processed' = after.df_processed
          /\ agg_data' = after.agg_data
          /\ req' = [req EXCEPT ![p].pc = IF after.raised THEN "raised" ELSE "bins_set",
                                ![p].own_agg = after.agg_data]
    /\ df_base' = BaseAfterSetBins(df_base)
    /\ UNCHANGED <<elasticity, loaded, seq_vars>>

\* opt.optimize() up to the first objective evaluation inside minimize()
ServerOptimizeStart(p) ==
    /\ req[p].pc = "bins_set"
    /\ \E guess \in {InitialGuess(volume_bins, growth_bins)} :
        \E f \in {ObjectiveFunction(guess, volume_bins, growth_bins, agg_data,
                                    elasticity)} :
          req' = [req EXCEPT ![p].pc = IF f.raised THEN "raised" ELSE "running",
                             ![p].rows = Len(volume_bins),
                             ![p].cols = Len(growth_bins),
                             ![p].bounds = Bounds(volume_bins, growth_bins),
                             ![p].initial_guess = guess,
                             ![p].x = guess, ![p].fun = f.value, ![p].nit = 0,
                             ![p].seen = Seen]
    /\ UNCHANGED <<obj_vars, loaded, seq_vars>>

\* one more iteration of the solver of request p: an objective evaluation
\* that reads the shared optimizer as it is now
ServerSolverIterate(p) ==
    /\ req[p].pc = "running"
    /\ req[p].nit < MaxIter
    /\ \E nx \in Iterates(req[p].initial_guess, req[p].bounds, req[p].cols) :
        \E f \in {ObjectiveFunction(nx, volume_bins, growth_bins, agg_data,
                                    elasticity)} :
          req' = [req EXCEPT ![p].pc = IF f.raised THEN "raised" ELSE "running",
                             ![p].x = nx, ![p].fun = f.value,
                             ![p].nit = req[p].nit + 1, ![p].seen = Seen]
    /\ UNCHANGED <<obj_vars, loaded, seq_vars>>

\* minimize() returns and optimize() returns (best_grid, max_revenue)
ServerSolverStop(p, success) ==
    /\ req[p].pc = "running"
    /\ \E res \in {OptimizeResult(req[p].x, req[p].fun, success)} :
          req' = [req EXCEPT ![p].pc = "returned", ![p].result = res,
                             ![p].ret = OptimizeReturn(res, req[p].rows, req[p].cols)]
    /\ UNCHANGED <<obj_vars, loaded, seq_vars>>

\* the handler formats what optimize() returned and answers
Respond(p) ==
    /\ req[p].pc = "returned"
    /\ req' = [req EXCEPT ![p].pc = "responded",
                          ![p].response = OptimizeResponse(req[p].ret, req[p].volume_bins,
                                                           req[p].growth_bins, agg_data)]
    /\ UNCHANGED <<obj_vars, loaded, seq_vars>>

\* except Exception as e: return jsonify({"error": str(e)}), 500
RespondError(p) ==
    /\ req[p].pc = "raised"
    /\ req' = [req EXCEPT ![p].pc = "responded", ![p].response = ErrorResponse]
    /\ UNCHANGED <<obj_vars, loaded, seq_vars>>

\* the thread is free for the next request
Done(p) ==
    /\ req[p].pc = "responded"
    /\ req' = [req EXCEPT ![p] = IdleRequest]
    /\ UNCHANGED <<obj_vars, loaded, seq_vars>>

ServerNext ==
    \E p \in Requests :
        \/ \E e \in RequestElasticities, cfg \in RequestBinConfigs : Receive(p, e, cfg)
        \/ SetElasticity(p)
        \/ ServerSetBins(p)
        \/ ServerOptimizeStart(p)
        \/ ServerSolverIterate(p)
        \/ \E success \in BOOLEAN : ServerSolverStop(p, success)
        \/ Respond(p)
        \/ RespondError(p)
        \/ Done(p)

SpecServer == ServerInit /\ [][ServerNext]_vars

\* ------------------------------------------------------ static calculators
Zero == <<0, 1>>

\* (cur - prev) / prev on two float cells; a missing cell (NaN) gives NaN
FGrowth(cur, prev) ==
    IF IsNaN(cur) \/ IsNaN(prev) THEN NaN ELSE FDiv(cur[1] - prev[1], prev[1])

\* .fillna(z) and .replace([np.inf, -np.inf], z) on one value
FillNa(v, z) == IF IsNaN(v) THEN z ELSE v
ReplaceInf(v, z) == IF IsPosInf(v) \/ IsNegInf(v) THEN z ELSE v

\* the growth column without the two guards
AppGrowthUnguarded(cur, prev) == FGrowth(cur, prev)

\* app.assign_tiers_from_bins: growth with inf replaced by 0, then NaN by 0
AppGrowth(cur, prev) == FillNa(ReplaceInf(FGrowth(cur, prev), Zero), Zero)

\* optimized_app.calculate_static: both revenue columns NaN-filled with 0,
\* then growth with inf replaced by 0 and NaN by 0
StaticGrowth(cur, prev) ==
    FillNa(ReplaceInf(FGrowth(FillNa(cur, Zero), FillNa(prev, Zero)), Zero), Zero)

\* RebateOptimizer.compute_growth of the enumeration variant: inf replaced
\* by NaN, then NaN by 0
ComputeGrowth(cur, prev) == FillNa(ReplaceInf(FGrowth(cur, prev), NaN), Zero)

\* bins given as numbers of a scale, as pairs of floats, and their edges
\* [b[0] for b in bins] + [bins[-1][1]]
FloatBins(bins, scale) ==
    [k \in DOMAIN bins |->
        <<EdgeFloat(bins[k][1], scale), EdgeFloat(bins[k][2], scale)>>]
FloatEdges(fbins) ==
    [i \in 1..(Len(fbins) + 1) |->
        IF i <= Len(fbins) THEN fbins[i][1] ELSE fbins[Len(fbins)][2]]

\* app.assign_tiers_from_bins on one account: vb are the volume bins and
\* growth_edges the list of growth edges parse_grid returns; both cuts are
\* right=False, include_lowest=True, and the tiers are the label positions
\* (-1 for NaN).  volume_bins[-1] raises on an empty list.
AssignTiersFromBins(cur, prev, vb, growth_edges) ==
    LET growth == AppGrowth(cur, prev)
    IN IF vb = <<>> \/ CutRaises(FloatEdges(vb)) \/ CutRaises(growth_edges)
       THEN [done |-> TRUE, raised |-> TRUE, growth |-> growth,
             v_idx |-> 0 - 1, g_idx |-> 0 - 1]
       ELSE [done |-> TRUE, raised |-> FALSE, growth |-> growth,
             v_idx |-> Cut(cur, FloatEdges(vb), FALSE, TRUE),
             g_idx |-> Cut(growth, growth_edges, FALSE, TRUE)]

\* optimized_app.calculate_static on one account, up to the tier indices:
\* volume right=True, growth right=False, labels=False
CalculateStatic(cur, prev, vb, gb) ==
    LET v_edges == Edges(vb, 1)
        g_edges == Edges(gb, 1000)
        growth == StaticGrowth(cur, prev)
    IN IF CutRaises(v_edges) \/ CutRaises(g_edges)
       THEN [done |-> TRUE, raised |-> TRUE, growth |-> growth,
             v_idx |-> 0 - 1, g_idx |-> 0 - 1]
       ELSE [done |-> TRUE, raised |-> FALSE, growth |-> growth,
             v_idx |-> Cut(FillNa(cur, Zero), v_edges, TRUE, FALSE),
             g_idx |-> Cut(growth, g_edges, FALSE, FALSE)]

\* RebateOptimizer.set_bins on one account, up to the tier indices: growth
\* unguarded, volume right=True, growth right=False, .cat.codes (-1 for a
\* value in no bin)
SetBinsTiers(cur, prev, vb, gb) ==
    LET v_edges == Edges(vb, 1)
        g_edges == Edges(gb, 1000)
        growth == FGrowth(cur, prev)
    IN IF CutRaises(v_edges) \/ CutRaises(g_edges)
       THEN [done |-> TRUE, raised |-> TRUE, growth |-> growth,
             v_idx |-> 0 - 1, g_idx |-> 0 - 1]
       ELSE [done |-> TRUE, raised |-> FALSE, growth |-> growth,
             v_idx |-> Cut(cur, v_edges, TRUE, FALSE),
             g_idx |-> GIdx(growth, g_edges)]

\* the revenue cells of one account as read from the CSV: a number, or NaN
\* for a missing cell
StaticCurrent == {NaN, <<0 - 5, 1>>, <<0, 1>>, <<5, 1>>, <<10, 1>>, <<15, 1>>}
StaticPrior == {NaN, <<0, 1>>, <<10, 1>>, <<12, 1>>}
StaticBinConfigs ==
    {<<VolBins(2), GrowthBins(2)>>, <<VolBins(MaxRows), GrowthBins(MaxCols)>>,
     <<VolBins(2), << <<0 - 1000, 0>>, <<0, 80>>, <<80, Inf>> >> >>}

StaticInit ==
    /\ df_base = <<>>
    /\ elasticity = 0
    /\ volume_bins = <<>> /\ growth_bins = <<>>
    /\ df_processed = Unset /\ agg_data = Unset
    /\ phase = "new"
    /\ FreshCall
    /\ loaded = FALSE
    /\ req = [p \in Requests |-> IdleRequest]
    /\ st_cur \in StaticCurrent
    /\ st_prev \in StaticPrior
    /\ \E cfg \in StaticBinConfigs : st_vb = cfg[1] /\ st_gb = cfg[2]
    /\ st_app = NoStaticRow /\ st_static = NoStaticRow /\ st_enum = NoStaticRow
    /\ st_opt = NoStaticRow
    /\ st_table = Unset
    /\ NoGrid

st_inputs == <<st_cur, st_prev, st_vb, st_gb, st_table>>

\* app.py: assign_tiers_from_bins(df, volume_bins, growth_bins)
RunAssignTiers ==
    /\ ~st_app.done
    /\ st_app' = AssignTiersFromBins(st_cur, st_prev, FloatBins(st_vb, 1),
                                      Edges(st_gb, 1000))
    /\ UNCHANGED <<obj_vars, phase, call_vars, srv_vars, st_inputs, st_static, st_enum,
                   st_opt, grid_vars>>

\* optimized_app.py: /calculate_static
RunCalculateStatic ==
    /\ ~st_static.done
    /\ st_static' = CalculateStatic(st_cur, st_prev, st_vb, st_gb)
    /\ UNCHANGED <<obj_vars, phase, call_vars, srv_vars, st_inputs, st_app, st_enum,
                   st_opt, grid_vars>>

\* the enumeration variant: RebateOptimizer(df).compute_growth()
RunComputeGrowth ==
    /\ ~st_enum.done
    /\ st_enum' = [done |-> TRUE, raised |-> FALSE,
                   growth |-> ComputeGrowth(st_cur, st_prev),
                   v_idx |-> 0 - 1, g_idx |-> 0 - 1]
    /\ UNCHANGED <<obj_vars, phase, call_vars, srv_vars, st_inputs, st_app, st_static,
                   st_opt, grid_vars>>

\* RebateOptimizer.set_bins behind /optimize, on the same account and bins
RunSetBins ==
    /\ ~st_opt.done
    /\ st_opt' = SetBinsTiers(st_cur, st_prev, st_vb, st_gb)
    /\ UNCHANGED <<obj_vars, phase, call_vars, srv_vars, st_inputs, st_app, st_static,
                   st_enum, grid_vars>>

StaticNext == RunAssignTiers \/ RunCalculateStatic \/ RunComputeGrowth \/ RunSetBins

SpecStatic == StaticInit /\ [][StaticNext]_vars

\* ------------------------------------------------------ app.py /calculate
\* A cell of a grid table is its text, cut into tokens <<kind, n, d>>: a
\* numeric literal ("num", the number n/d: a run of digits with an optional
\* fraction) or a piece of other text ("plus", "minus", "pct", "comma",
\* "space", "inf", "text"), with n = d = 0.  A cell that is no text but the
\* null of the request (None) is the one token "none".
Num(n, d) == <<"num", n, d>>
Tok(kind) == <<kind, 0, 0>>

IsNumTok(t) == t[1] = "num"
HasTok(cell, kind) == \E i \in DOMAIN cell : cell[i][1] = kind

\* re.findall(r'\d+\.?\d*', str(cell)): the numeric literals, as floats; a
\* sign in front of a literal is not part of the match
FindAll(cell) ==
    LET nums == SelectSeq(cell, IsNumTok)
    IN [k \in DOMAIN nums |-> <<nums[k][2], nums[k][3]>>]

RECURSIVE StripLeft(_)
StripLeft(cell) ==
    IF cell # <<>> /\ cell[1][1] = "space" THEN StripLeft(Tail(cell)) ELSE cell

RECURSIVE StripRight(_)
StripRight(cell) ==
    IF cell # <<>> /\ cell[Len(cell)][1] = "space"
    THEN StripRight(SubSeq(cell, 1, Len(cell) - 1)) ELSE cell

\* str.strip()
Strip(cell) == StripRight(StripLeft(cell))

\* float(text): a literal, a signed literal or a signed "inf", with blanks
\* around it allowed; ValueError (ok = FALSE) for every other text
ParseFloat(cell) ==
    LET t == Strip(cell)
        body == IF t # <<>> /\ t[1][1] \in {"plus", "minus"} THEN Tail(t) ELSE t
        neg == t # <<>> /\ t[1][1] = "minus"
    IN IF Len(body) = 1 /\ body[1][1] = "num"
       THEN [ok |-> TRUE,
             val |-> <<IF neg THEN 0 - body[1][2] ELSE body[1][2], body[1][3]>>]
       ELSE IF Len(body) = 1 /\ body[1][1] = "inf"
       THEN [ok |-> TRUE, val |-> IF neg THEN NegInf ELSE PosInf]
       ELSE [ok |-> FALSE, val |-> NaN]

\* the volume bin parse_grid reads from one row label, if any: the first
\* number and infinity for a label with a "+", the two numbers of a label
\* with exactly two, nothing otherwise
VolumeBinOf(label) ==
    LET nums == FindAll(label)
    IN IF HasTok(label, "plus")
       THEN IF nums = <<>> THEN [ok |-> FALSE, bin |-> <<NaN, NaN>>]
            ELSE [ok |-> TRUE, bin |-> <<nums[1], PosInf>>]
       ELSE IF Len(nums) = 2 THEN [ok |-> TRUE, bin |-> <<nums[1], nums[2]>>]
            ELSE [ok |-> FALSE, bin |-> <<NaN, NaN>>]

RECURSIVE SortFloats(_)
\* list.sort() on floats
SortFloats(seq) ==
    IF seq = <<>> THEN <<>>
    ELSE LET m == CHOOSE i \in DOMAIN seq : \A j \in DOMAIN seq : FLe(seq[i], seq[j])
         IN <<seq[m]>> \o SortFloats([k \in 1..(Len(seq) - 1) |->
                                         IF k < m THEN seq[k] ELSE seq[k + 1]])

\* x / 100.0
Div100(v) == IF IsFinite(v) THEN <<v[1], v[2] * 100>> ELSE v

\* the rate of one cell without the reinterpretation of a bare number above 1.0
ParseRateBareKept(cell) ==
    LET rate_str == Strip(cell)
        NotPct(t) == t[1] # "pct"
        f == IF HasTok(rate_str, "pct") THEN ParseFloat(SelectSeq(rate_str, NotPct))
             ELSE ParseFloat(rate_str)
    IN IF ~f.ok THEN <<0, 1>>
       ELSE IF HasTok(rate_str, "pct") THEN Div100(f.val)
       ELSE f.val

\* the rate parse_grid reads from one cell: number/100 with a percent sign,
\* number/100 for a bare number above 1.0, the number itself otherwise, and
\* 0 when float() raises
ParseRate(cell) ==
    LET rate_str == Strip(cell)
        IsPct(t) == t[1] = "pct"
        NotPct(t) == t[1] # "pct"
        f == IF HasTok(rate_str, "pct") THEN ParseFloat(SelectSeq(rate_str, NotPct))
             ELSE ParseFloat(rate_str)
    IN IF ~f.ok THEN <<0, 1>>
       ELSE IF HasTok(rate_str, "pct") THEN Div100(f.val)
       ELSE IF FLt(<<1, 1>>, f.val) THEN Div100(f.val)
       ELSE f.val

\* the length of the longest row of a table
MaxLen(rows) ==
    IF rows = <<>> THEN 0
    ELSE CHOOSE n \in {Len(rows[i]) : i \in DOMAIN rows} :
            \A i \in DOMAIN rows : Len(rows[i]) <= n

\* grid_df.iloc[i, j]: a data row shorter than the longest one is filled up
\* with None, whose text is "None"
CellAt(row, j) == IF j <= Len(row) THEN row[j] ELSE <<Tok("text")>>

\* parse_grid(grid_data) on a table: the volume bins, the growth edges and the rates by
\* (i, j) for the key (V<i>, G<j>).  The rate of (V<i>, G<j>) is read from the
\* i-th data row and the (j+1)-th column of the table.  pd.DataFrame raises
\* when the longest data row has not the length of the header row, and
\* float(x) raises a TypeError, which the header loop does not catch, for a
\* header that is None.
ParseGrid(table) ==
    IF Len(table) < 2
    THEN [done |-> TRUE, raised |-> FALSE, volume_bins |-> <<>>, growth_bins |-> <<>>,
          rebate_rates |-> <<>>]
    ELSE IF \/ MaxLen(Tail(table)) # Len(table[1])
            \/ \E c \in 2..Len(table[1]) : table[1][c] = <<Tok("none")>>
    THEN [done |-> TRUE, raised |-> TRUE, volume_bins |-> <<>>, growth_bins |-> <<>>,
          rebate_rates |-> <<>>]
    ELSE
      LET data == Tail(table)
          Parsable(row) == VolumeBinOf(CellAt(row, 1)).ok
          good == SelectSeq(data, Parsable)
          volume_bins_ == [k \in DOMAIN good |-> VolumeBinOf(CellAt(good[k], 1)).bin]
          IsFloat(h) == ParseFloat(h).ok
          heads == SelectSeq(Tail(table[1]), IsFloat)
          edges == SortFloats([k \in DOMAIN heads |-> ParseFloat(heads[k]).val])
      IN [done |-> TRUE, raised |-> FALSE,
          volume_bins |-> volume_bins_,
          growth_bins |-> Append(edges, PosInf),
          rebate_rates |->
             [i \in DOMAIN volume_bins_ |->
                [j \in DOMAIN edges |-> ParseRate(CellAt(data[i], j + 1))]]]

\* a * b on floats: NaN when a factor is NaN or the product is 0 * infinity
FMul(a, b) ==
    IF IsNaN(a) \/ IsNaN(b) THEN NaN
    ELSE IF IsFinite(a) /\ IsFinite(b) THEN <<a[1] * b[1], a[2] * b[2]>>
    ELSE <<Sign(a[1]) * Sign(b[1]), 0>>

\* compute_rebate(row, rebate_rates): rebate_rates.get((volume_tier,
\* growth_tier), 0) * row["curryr_rev"]; the tiers are label positions, -1
\* for the NaN of an unassigned tier, which is no key of the dictionary
ComputeRebate(cur, v_idx, g_idx, rebate_rates) ==
    LET present == /\ v_idx >= 0 /\ g_idx >= 0
                   /\ v_idx + 1 \in DOMAIN rebate_rates
                   /\ g_idx + 1 \in DOMAIN rebate_rates[v_idx + 1]
        rate == IF present THEN rebate_rates[v_idx + 1][g_idx + 1] ELSE <<0, 1>>
    IN [done |-> TRUE, raised |-> FALSE, value |-> FMul(rate, cur)]

\* ---------------------------------------------------- rate grids as tables
\* str(v) of a bin bound of the given scale: "inf" for np.inf, a sign in front
\* of a negative number
FmtNum(v, scale) ==
    IF v = Inf THEN <<Tok("inf")>>
    ELSE IF v < 0 THEN <<Tok("minus"), Num(0 - v, scale)>>
    ELSE <<Num(v, scale)>>

\* the table RebateOptimizer.save_results writes with to_csv: an unnamed
\* index column of "<lower>-<upper>" volume labels, "<lower>-<upper>" growth
\* headers, and the rates rounded to two decimals
SaveResultsTable(best_grid, vb, gb) ==
    <<  <<  <<>>  >> \o
        [c \in DOMAIN gb |->
            FmtNum(gb[c][1], 1000) \o <<Tok("minus")>> \o FmtNum(gb[c][2], 1000)] >>
    \o [r \in DOMAIN vb |->
          << FmtNum(vb[r][1], 1) \o <<Tok("minus")>> \o FmtNum(vb[r][2], 1) >> \o
          [c \in DOMAIN gb |->
              <<Num(RoundHalfEven(best_grid[r - 1][c - 1], 10000000), 100)>>]]

RECURSIVE Thousands(_)
\* f"{n:,}" of a non-negative integer: groups of digits between commas
Thousands(n) ==
    IF n < 1000 THEN <<Num(n, 1)>>
    ELSE Thousands(n \div 1000) \o <<Tok("comma"), Num(n % 1000, 1)>>

\* f"{g*100:.0f}%" of a growth bound in 1/1000
FmtPct(g) ==
    LET pc == RoundHalfEven(g, 10)
    IN (IF pc < 0 THEN <<Tok("minus"), Num(0 - pc, 1)>> ELSE <<Num(pc, 1)>>)
       \o <<Tok("pct")>>

\* grid_headers and grid_rows of the /optimize answer, as one table: headers
\* "<lo>% - <hi>%" or "<lo>%+", row labels "<lo> - <hi>" or "<lo>+" with
\* thousands separators, and the rounded rates as whole percents "<p>%"
ResponseTable(best_grid, vb, gb) ==
    LET dash == <<Tok("space"), Tok("minus"), Tok("space")>>
    IN <<  << <<Tok("text")>> >> \o
           [c \in DOMAIN gb |->
               IF gb[c][2] # Inf THEN FmtPct(gb[c][1]) \o dash \o FmtPct(gb[c][2])
               ELSE FmtPct(gb[c][1]) \o <<Tok("plus")>>] >>
       \o [r \in DOMAIN vb |->
             << IF vb[r][2] # Inf
                THEN Thousands(vb[r][1]) \o dash \o Thousands(vb[r][2])
                ELSE Thousands(vb[r][1]) \o <<Tok("plus")>> >> \o
             [c \in DOMAIN gb |->
                 <<Num(RoundHalfEven(best_grid[r - 1][c - 1], 10000000), 1),
                   Tok("pct")>>]]

\* the grids the encoders are given: bins (volume in units, growth in 1/1000)
\* and a rate grid in 1e-9, as optimize() returns it
GridSource(vb, gb, grid) == [volume_bins |-> vb, growth_bins |-> gb, best_grid |-> grid]
FlatGrid(flat, rows, cols) == Reshape([k \in 0..(rows * cols - 1) |-> flat[k + 1]], rows, cols)
GridSources ==
    {GridSource(<< <<0, 10000>>, <<10000, Inf>> >>, << <<0, 80>>, <<80, Inf>> >>,
                FlatGrid(<<0, 10000000, 0, 54900000>>, 2, 2)),
     GridSource(<< <<5000, 15000>>, <<15000, 30000>>, <<30000, Inf>> >>,
                << <<0, 80>>, <<80, 150>>, <<150, Inf>> >>,
                FlatGrid(<<0, 10000000, 20000000, 0, 20000000, 30000000,
                           0, 30000000, 150000000>>, 3, 3)),
     GridSource(<< <<0, Inf>> >>, << <<0 - 1000, 0>>, <<0, Inf>> >>,
                FlatGrid(<<0, 125000000>>, 1, 2)),
     GridSource(<< <<0, 10000>>, <<10000, Inf>> >>, << <<0, 80>>, <<80, Inf>> >>,
                FlatGrid(<<0, 15000000, 0, 25000000>>, 2, 2))}

\* the tables a user types or uploads: Scenario B of the documentation of the
\* grid format with mixed rate notations, a table with a row label and a
\* header that are no numbers and headers out of order, and a table with an
\* empty (null) header
TypedGrids ==
    {<< << <<Tok("text")>>, <<Num(8, 100)>>, <<Num(15, 100)>>, <<Num(2, 10)>> >>,
        << <<Num(9000, 1), Tok("minus"), Num(15000, 1)>>,
           <<Num(1, 100)>>, <<Num(3, 100)>>, <<Num(5, 100)>> >>,
        << <<Num(45000, 1), Tok("plus")>>,
           <<Num(5, 1), Tok("pct")>>, <<Num(7, 1)>>, <<Num(11, 100)>> >> >>,
     << << <<Tok("text")>>, <<Num(15, 100)>>, <<Tok("text")>>, <<Num(8, 100)>> >>,
        << <<Tok("text")>>, <<Num(1, 100)>>, <<Num(2, 100)>>, <<Num(3, 100)>> >>,
        << <<Num(0, 1), Tok("minus"), Num(9000, 1)>>,
           <<Num(4, 100)>>, <<Tok("text")>>, <<Num(2, 100)>> >>,
        << <<Num(9000, 1), Tok("plus")>>,
           <<Num(6, 1), Tok("pct")>>, <<Num(1, 1)>>, <<Num(3, 1)>> >> >>,
     << << <<Tok("text")>>, <<Num(8, 100)>>, <<Tok("none")>> >>,
        << <<Num(0, 1), Tok("plus")>>, <<Num(1, 100)>>, <<Num(2, 100)>> >> >>}

\* the revenue cells of the account the rebate is computed for
GridCurrent == {NaN, <<5000, 1>>, <<9000, 1>>, <<12000, 1>>, <<50000, 1>>}
GridPrior == {<<0, 1>>, <<10000, 1>>, <<45000, 1>>}

\* the /calculate handler of app.py reads a grid table and one account; the
\* table is typed by the user or written by save_results or by /optimize
GridInit ==
    /\ df_base = <<>>
    /\ elasticity = 0
    /\ volume_bins = <<>> /\ growth_bins = <<>>
    /\ df_processed = Unset /\ agg_data = Unset
    /\ phase = "new"
    /\ FreshCall
    /\ loaded = FALSE
    /\ req = [p \in Requests |-> IdleRequest]
    /\ NoStatic
    /\ g_pc = "grid"
    /\ g_src \in GridSources
    /\ g_from = "none"
    /\ grid_data = <<>>
    /\ parsed = NoParse
    /\ g_cur \in GridCurrent
    /\ g_prev \in GridPrior
    /\ g_tiers = NoStaticRow
    /\ rebate = NoRebate

grid_rest == <<obj_vars, phase, call_vars, srv_vars, st_vars, g_src, g_cur, g_prev>>

\* the user types or uploads a table
TypeGrid(t) ==
    /\ g_pc = "grid"
    /\ grid_data' = t
    /\ g_from' = "typed"
    /\ g_pc' = "table"
    /\ UNCHANGED <<grid_rest, parsed, g_tiers, rebate>>

\* optimizer.save_results(best_grid) writes the table
SaveResults ==
    /\ g_pc = "grid"
    /\ grid_data' = SaveResultsTable(g_src.best_grid, g_src.volume_bins,
                                     g_src.growth_bins)
    /\ g_from' = "save_results"
    /\ g_pc' = "table"
    /\ UNCHANGED <<grid_rest, parsed, g_tiers, rebate>>

\* /optimize answers with grid_headers and grid_rows
FormatResponse ==
    /\ g_pc = "grid"
    /\ grid_data' = ResponseTable(g_src.best_grid, g_src.volume_bins,
                                  g_src.growth_bins)
    /\ g_from' = "optimize"
    /\ g_pc' = "table"
    /\ UNCHANGED <<grid_rest, parsed, g_tiers, rebate>>

\* /calculate: parse_grid(grid_data)
CalculateParse ==
    /\ g_pc = "table"
    /\ parsed' = ParseGrid(grid_data)
    /\ g_pc' = IF parsed'.raised THEN "error" ELSE "parsed"
    /\ UNCHANGED <<grid_rest, g_from, grid_data, g_tiers, rebate>>

\* /calculate: assign_tiers_from_bins(accounts_df, volume_bins, growth_bins)
CalculateAssign ==
    /\ g_pc = "parsed"
    /\ g_tiers' = AssignTiersFromBins(g_cur, g_prev, parsed.volume_bins,
                                      parsed.growth_bins)
    /\ g_pc' = IF g_tiers'.raised THEN "error" ELSE "assigned"
    /\ UNCHANGED <<grid_rest, g_from, grid_data, parsed, rebate>>

\* /calculate: compute_rebate(row, rebate_rates) for the account
CalculateRebate ==
    /\ g_pc = "assigned"
    /\ rebate' = ComputeRebate(g_cur, g_tiers.v_idx, g_tiers.g_idx,
                               parsed.rebate_rates)
    /\ g_pc' = "done"
    /\ UNCHANGED <<grid_rest, g_from, grid_data, parsed, g_tiers>>

GridNext ==
    \/ \E t \in TypedGrids : TypeGrid(t)
    \/ SaveResults
    \/ FormatResponse
    \/ CalculateParse
    \/ CalculateAssign
    \/ CalculateRebate

SpecGrid == GridInit /\ [][GridNext]_vars

\* ------------------------------------- Brute_Force_Optimizer random grids
\* Rates of generate_monotonic_grid are counted in 1e-4 (0.01 is 100) while a
\* grid is filled, and np.random.uniform(0.01, 0.03) draws one of these
\* increments; no draw puts a rate on a rounding tie.
Draws == {100, 149, 151, 299}
BruteMinRate == 100
BruteMaxRate == 1500
BruteStep == 100

Max2(a, b) == IF a >= b THEN a ELSE b
Min2(a, b) == IF a <= b THEN a ELSE b

RECURSIVE FillGrid(_, _, _, _, _, _)
\* the double loop of generate_monotonic_grid from flat cell k on; grid is
\* np.zeros with the cells before k filled, u[k] the draw of cell k.
\* grid[i, j-1] with j = 0 is numpy's grid[i, -1], the last column.
FillGrid(k, grid, rows, cols, gb, u) ==
    IF k = rows * cols THEN grid
    ELSE LET i == k \div cols
             j == k % cols
             prev_vol_rate == IF i > 0 THEN grid[(i - 1) * cols + j] ELSE BruteMinRate
             prev_growth_rate == IF j > 0 THEN grid[i * cols + j - 1] ELSE BruteMinRate
             base_rate == Max2(prev_vol_rate, prev_growth_rate)
             drawn == Min2(base_rate + u[k], BruteMaxRate)
             left == IF j > 0 THEN grid[i * cols + j - 1] ELSE grid[i * cols + cols - 1]
             rate == IF i = 0 /\ j = 1 THEN BruteMinRate
                     ELSE IF j = cols - 1
                     THEN Min2(Max2(left + BruteStep, drawn), BruteMaxRate)
                     ELSE drawn
             cell == IF Exempt(gb, j) THEN 0 ELSE RoundHalfEven(rate, 100) * 100
         IN FillGrid(k + 1, [grid EXCEPT ![k] = cell], rows, cols, gb, u)

\* generate_monotonic_grid(volume_bins, growth_bins) for the draws u, as a
\* rows x cols grid of rates in 1e-9
GenerateMonotonicGrid(vb, gb, u) ==
    LET rows == Len(vb)
        cols == Len(gb)
        flat == FillGrid(0, [k \in 0..(rows * cols - 1) |-> 0], rows, cols, gb, u)
    IN Reshape([k \in 0..(rows * cols - 1) |-> flat[k] * 100000], rows, cols)

\* the bin configurations the generator is called with: one exempt column
\* first (the shape of the script's three configurations), no exempt column
\* (two and three columns),
\* two exempt columns, a single column
BruteConfigs ==
    {<<VolBins(2), GrowthBins(3)>>,
     <<VolBins(3), GrowthBins(2)>>,
     <<VolBins(2), << <<80, 150>>, <<150, Inf>> >> >>,
     <<VolBins(2), << <<80, 150>>, <<150, 200>>, <<200, Inf>> >> >>,
     <<VolBins(2), << <<0 - 1000, 0>>, <<0, 80>>, <<80, Inf>> >> >>,
     <<VolBins(3), GrowthBins(1)>>}

BruteInit ==
    /\ df_base = <<>>
    /\ elasticity = 0
    /\ volume_bins = <<>> /\ growth_bins = <<>>
    /\ df_processed = Unset /\ agg_data = Unset
    /\ phase = "new"
    /\ FreshCall
    /\ loaded = FALSE
    /\ req = [p \in Requests |-> IdleRequest]
    /\ NoStatic
    /\ g_pc = "bins"
    /\ \E cfg \in BruteConfigs : g_src = GridSource(cfg[1], cfg[2], <<>>)
    /\ g_from = "none"
    /\ grid_data = <<>>
    /\ parsed = NoParse
    /\ g_cur = NaN /\ g_prev = NaN
    /\ g_tiers = NoStaticRow
    /\ rebate = NoRebate

\* one iteration of the simulation loop: grid_df = generate_monotonic_grid(..)
GenerateGrid(u) ==
    /\ g_pc = "bins"
    /\ g_src' = [g_src EXCEPT !.best_grid =
                    GenerateMonotonicGrid(g_src.volume_bins, g_src.growth_bins, u)]
    /\ g_from' = "generated"
    /\ g_pc' = "generated"
    /\ UNCHANGED <<obj_vars, phase, call_vars, srv_vars, st_vars, grid_data, parsed,
                   g_cur, g_prev, g_tiers, rebate>>

\* the loop goes on to its next iteration
NextIteration ==
    /\ g_pc = "generated"
    /\ g_src' = [g_src EXCEPT !.best_grid = <<>>]
    /\ g_from' = "none"
    /\ g_pc' = "bins"
    /\ UNCHANGED <<obj_vars, phase, call_vars, srv_vars, st_vars, grid_data, parsed,
                   g_cur, g_prev, g_tiers, rebate>>

BruteNext ==
    \/ \E u \in [0..(Len(g_src.volume_bins) * Len(g_src.growth_bins) - 1) -> Draws] :
          GenerateGrid(u)
    \/ NextIteration

SpecBrute == BruteInit /\ [][BruteNext]_vars

\* ------------------------------------------------- one optimizer's session
\* One RebateOptimizer used as the script and the server use it: set_bins,
\* get_constraints and optimize as above, save_results on what optimize()
\* returned, and /calculate_static, which reads the optimizer's df_base.
SessionTables == {<<Account(15, 12), Account(5, 0)>>,
                  <<Account(10, 10), Account(25, 50)>>}
SessionStaticConfigs == {<<VolBins(2), GrowthBins(2)>>}

\* df_base after /calculate_static: df = opt.df_base.copy(), and every later
\* statement assigns to or replaces in df
BaseAfterCalculateStatic(base) == base

\* the table df of calculate_static after dropna(subset=['v_idx', 'g_idx']),
\* or None when pd.cut raised
CalculateStaticTable(base, vb, gb) ==
    LET row == [i \in DOMAIN base |->
                   CalculateStatic(<<base[i].curryr_rev, 1>>, <<base[i].prevyr_rev, 1>>,
                                   vb, gb)]
        all == [i \in DOMAIN base |->
                   [idx |-> i, growth |-> row[i].growth,
                    v_idx |-> row[i].v_idx, g_idx |-> row[i].g_idx]]
    IN IF \E i \in DOMAIN base : row[i].raised THEN Unset
       ELSE Table(SelectSeq(all, ValidRow))

SessionInit ==
    /\ df_base \in SessionTables
    /\ elasticity = DefaultElasticity
    /\ volume_bins = <<>> /\ growth_bins = <<>>
    /\ df_processed = Unset /\ agg_data = Unset
    /\ phase = "new"
    /\ FreshCall
    /\ loaded = TRUE
    /\ req = [p \in Requests |-> IdleRequest]
    /\ NoStatic
    /\ NoGrid

\* optimizer.save_results(best_grid) on the grid optimize() returned, after
\* which the script ends
CallSaveResults ==
    /\ phase \in {"converged", "failed"}
    /\ grid_data' = SaveResultsTable(ret.best_grid, volume_bins, growth_bins)
    /\ g_from' = "save_results"
    /\ phase' = "saved"
    /\ UNCHANGED <<obj_vars, call_vars, srv_vars, st_vars, g_pc, g_src, parsed,
                   g_cur, g_prev, g_tiers, rebate>>

\* a /calculate_static request between two calls of the optimizer
CallCalculateStatic(cfg) ==
    /\ phase \in {"new", "configured", "idle", "error", "converged", "failed"}
    /\ st_table' = CalculateStaticTable(df_base, cfg[1], cfg[2])
    /\ df_base' = BaseAfterCalculateStatic(df_base)
    /\ UNCHANGED <<elasticity, volume_bins, growth_bins, df_processed, agg_data,
                   phase, call_vars, srv_vars, st_cur, st_prev, st_vb, st_gb,
                   st_app, st_static, st_enum, st_opt, grid_vars>>

SessionNext ==
    \/ Next
    \/ CallSaveResults
    \/ \E cfg \in SessionStaticConfigs : CallCalculateStatic(cfg)

SpecSession == SessionInit /\ [][SessionNext]_vars

\* ------------------------------------------------------------------ claims
Rows == Len(volume_bins)
Cols == Len(growth_bins)
Started == phase \in {"running", "converged", "failed"}

\* the coefficient vector with +1 at flat index plus, -1 at minus, 0 elsewhere
Expected(plus, minus) ==
    [k \in 0..(Rows * Cols - 1) |->
        IF k = plus THEN 1 ELSE IF k = minus THEN 0 - 1 ELSE 0]

\* the inequalities of the last get_constraints result with this vector
RowsWith(vec) == {i \in DOMAIN cons.A : cons.A[i] = vec}

\* C1: get_constraints(min_increment) emits, for every row r >= 1 and every
\* column c whose growth-bin upper bound is above 0.08, exactly one inequality
\* with +1 at r*cols+c, -1 at (r-1)*cols+c and 0 elsewhere, lower bound
\* min_increment and upper bound +infinity, and none for an exempt column.
C1_VolumeDirection ==
    cons_arg >= 0 =>
        \A r \in 1..(Rows - 1), c \in 0..(Cols - 1) :
            LET hits == RowsWith(Expected(r * Cols + c, (r - 1) * Cols + c))
            IN IF growth_bins[c + 1][2] > 80
               THEN /\ Cardinality(hits) = 1
                    /\ \A i \in hits : cons.lb[i] = cons_arg /\ cons.ub[i] = Inf
               ELSE hits = {}

C1_Witness ==
    /\ cons_arg = 2 * MinIncrement
    /\ Rows = 3 /\ Cols = 3
    /\ growth_bins[1][2] <= 80 /\ growth_bins[2][2] > 80
    /\ RowsWith(Expected(2 * Cols + 1, Cols + 1)) # {}

\* C2: get_constraints(min_increment) emits, for every row r and every column
\* c >= 1 with columns c and c-1 both non-exempt, exactly one inequality with
\* +1 at r*cols+c, -1 at r*cols+(c-1) and 0 elsewhere, lower bound
\* min_increment, and none for a pair in which either column is exempt.
C2_GrowthDirection ==
    cons_arg >= 0 =>
        \A r \in 0..(Rows - 1), c \in 1..(Cols - 1) :
            LET hits == RowsWith(Expected(r * Cols + c, r * Cols + (c - 1)))
            IN IF growth_bins[c + 1][2] > 80 /\ growth_bins[c][2] > 80
               THEN /\ Cardinality(hits) = 1
                    /\ \A i \in hits : cons.lb[i] = cons_arg /\ cons.ub[i] = Inf
               ELSE hits = {}

C2_Witness ==
    /\ cons_arg = MinIncrement
    /\ Rows = 2 /\ Cols = 3
    /\ growth_bins[1][2] <= 80 /\ growth_bins[2][2] > 80 /\ growth_bins[3][2] > 80
    /\ RowsWith(Expected(Cols + 2, Cols + 1)) # {}
    /\ RowsWith(Expected(Cols + 1, Cols)) = {}

\* C3: for every cell of an exempt column (growth-bin upper bound <= 0.08) no
\* inequality of get_constraints has a non-zero coefficient at the cell, and
\* optimize() gives the cell the box [0, 1e-9] and the initial value 0; every
\* other cell gets the box [0.01, 0.15]; so an iterate within the box has every
\* exempt cell within 1e-9 of zero.
C3_ExemptPinnedByBounds ==
    \A r \in 0..(Rows - 1), c \in 0..(Cols - 1) :
        LET k == r * Cols + c
        IN IF growth_bins[c + 1][2] <= 80
           THEN /\ cons_arg >= 0 => \A i \in DOMAIN cons.A : cons.A[i][k] = 0
                /\ Started =>
                      /\ bounds[k] = <<0, 1>>
                      /\ initial_guess[k] = 0
                      /\ (\A j \in DOMAIN x : bounds[j][1] <= x[j] /\ x[j] <= bounds[j][2])
                            => (0 <= x[k] /\ x[k] <= 1)
           ELSE Started => bounds[k] = <<10000000, 150000000>>

C3_Witness ==
    /\ phase = "running"
    /\ Rows = 2 /\ Cols = 3
    /\ growth_bins[1][2] <= 80 /\ growth_bins[2][2] > 80
    /\ ~cons.none
    /\ x[Cols] = 1 /\ x[Cols + 1] = 150000000
    /\ \A j \in DOMAIN x : bounds[j][1] <= x[j] /\ x[j] <= bounds[j][2]
\* C5: a failed solver run is never presented as a converged one: what
\* optimize() returns after the solver reported failure differs from what it
\* returns for the same iterate in the converged case, and /optimize does not
\* answer a failed run with its normal success response.
C5_FailureSurfaced ==
    \A p \in Requests :
        (req[p].pc = "responded" /\ req[p].result.x # <<>> /\ ~req[p].result.success) =>
            /\ req[p].ret # OptimizeReturn([req[p].result EXCEPT !.success = TRUE],
                                           req[p].rows, req[p].cols)
            /\ req[p].response.status # 200

\* C6: for any interleaving of two /optimize requests, each request's solver
\* run reads only the elasticity, bins and per-cell aggregate that the same
\* request supplied, and the elasticity does not change while its optimize()
\* call is in progress.
C6_RequestIsolation ==
    \A p \in Requests :
        req[p].pc = "running" =>
            /\ req[p].seen.elasticity = req[p].elasticity
            /\ req[p].seen.volume_bins = req[p].volume_bins
            /\ req[p].seen.growth_bins = req[p].growth_bins
            /\ req[p].seen.agg_data = req[p].own_agg
            /\ elasticity = req[p].seen.elasticity

\* C7: in the static calculators (app.assign_tiers_from_bins,
\* optimized_app.calculate_static, compute_growth of the enumeration variant)
\* an account with prior-period value 0 gets growth exactly 0 for any current
\* value, and the growth used to assign tiers is never NaN or infinite.
C7_ZeroPriorGrowthZero ==
    \A row \in {st_app, st_static, st_enum} :
        row.done =>
            /\ IsFinite(row.growth)
            /\ st_prev = <<0, 1>> => row.growth[1] = 0

C7_Witness ==
    /\ st_prev = <<0, 1>> /\ st_cur = <<5, 1>>
    /\ st_app.done /\ st_static.done /\ st_enum.done
    /\ st_app.g_idx = 0 /\ st_static.g_idx = 0
\* a bin sequence that is not contiguous, not strictly increasing, or does not
\* cover the range from 0 to +infinity
IllFormed(bins) ==
    \/ \E i \in 1..(Len(bins) - 1) : bins[i][2] # bins[i + 1][1]
    \/ \E i \in DOMAIN bins : bins[i][1] >= bins[i][2]
    \/ \E i \in 1..(Len(bins) - 1) : bins[i][1] >= bins[i + 1][1]
    \/ bins[1][1] > 0
    \/ bins[Len(bins)][2] # Inf

\* C8: in set_bins an account with prior-period value 0 and a current value
\* inside some volume bin gets growth 0 and valid tier indices whenever the
\* growth bins contain 0, so it is kept in df_processed and counted in the
\* aggregate.
C8_ZeroPriorKeptBySetBins ==
    phase = "configured" =>
        \A i \in DOMAIN df_base :
            (/\ df_base[i].prevyr_rev = 0
             /\ \E k \in DOMAIN volume_bins :
                   /\ volume_bins[k][1] < df_base[i].curryr_rev
                   /\ df_base[i].curryr_rev <= volume_bins[k][2]
             /\ \E k \in DOMAIN growth_bins :
                   growth_bins[k][1] <= 0 /\ 0 < growth_bins[k][2])
            => /\ \E j \in DOMAIN df_processed.rows :
                     /\ df_processed.rows[j].idx = i
                     /\ df_processed.rows[j].growth_val = <<0, 1>>
                     /\ df_processed.rows[j].v_idx >= 0
                     /\ df_processed.rows[j].g_idx >= 0
               /\ agg_data.rows # <<>>

\* C9: when no account falls into a valid cell, the set_bins/optimize call
\* ends in an explicit error: the solver is never run over an empty cell set
\* and no rate grid and revenue figure is returned for it.
C9_EmptyCellSetFailsFast ==
    (agg_data.defined /\ agg_data.rows = <<>>) =>
        /\ phase \notin {"running", "converged", "failed"}
        /\ ret = NoReturn

\* C10: set_bins rejects with an explicit error any bin configuration that is
\* not contiguous, not strictly increasing or does not cover the full range,
\* and never builds tier indices or an aggregate from it.
C10_IllFormedBinsRejected ==
    (volume_bins # <<>> /\ (IllFormed(volume_bins) \/ IllFormed(growth_bins))) =>
        phase = "error"
\* bins whose bounds increase and where each upper bound is the next lower one
Contiguous(bins) ==
    /\ \A k \in DOMAIN bins : bins[k][1] < bins[k][2]
    /\ \A k \in 1..(Len(bins) - 1) : bins[k][2] = bins[k + 1][1]

\* the rows of df_processed that come from account i of df_base
RowsOf(i) == {j \in DOMAIN df_processed.rows : df_processed.rows[j].idx = i}

\* C11: set_bins uses one boundary-inclusion rule for both dimensions: an
\* account whose value equals an interior edge shared by bins k and k+1 goes
\* to the same side (side 0: the lower bin k, side 1: the upper bin k+1) in
\* the volume dimension and in the growth dimension.
C11_SameInclusionRule ==
    phase = "configured" =>
        \E side \in {0, 1} :
            \A j \in DOMAIN df_processed.rows :
                LET row == df_processed.rows[j]
                IN /\ \A k \in 1..(Rows - 1) :
                        (/\ volume_bins[k][2] = volume_bins[k + 1][1]
                         /\ row.curryr_rev = volume_bins[k][2])
                        => row.v_idx = k - 1 + side
                   /\ \A k \in 1..(Cols - 1) :
                        (/\ growth_bins[k][2] = growth_bins[k + 1][1]
                         /\ FEq(row.growth_val, <<growth_bins[k][2], 1000>>))
                        => row.g_idx = k - 1 + side

\* C12: in set_bins a value equal to a finite bin edge of its dimension, the
\* lowest lower bound included, gets exactly one tier index of that dimension
\* and never the invalid sentinel -1.
C12_EdgeValueGetsOneTier ==
    phase = "configured" =>
        \A i \in DOMAIN df_base :
            /\ (\E k \in DOMAIN volume_bins :
                    \/ df_base[i].curryr_rev = volume_bins[k][1]
                    \/ (volume_bins[k][2] # Inf
                        /\ df_base[i].curryr_rev = volume_bins[k][2]))
               => VIdx(df_base[i].curryr_rev, Edges(volume_bins, 1)) \in 0..(Rows - 1)
            /\ (\E k \in DOMAIN growth_bins :
                    \/ FEq(GrowthVal(df_base[i].curryr_rev, df_base[i].prevyr_rev),
                           <<growth_bins[k][1], 1000>>)
                    \/ (growth_bins[k][2] # Inf
                        /\ FEq(GrowthVal(df_base[i].curryr_rev, df_base[i].prevyr_rev),
                               <<growth_bins[k][2], 1000>>)))
               => GIdx(GrowthVal(df_base[i].curryr_rev, df_base[i].prevyr_rev),
                       Edges(growth_bins, 1000)) \in 0..(Cols - 1)

\* C13: for contiguous bins set_bins gives an account whose current value is
\* inside volume bin k and whose growth is inside growth bin l the zero-based
\* pair (k, l), and every pair it assigns names bins that contain the
\* account's values; volume bins [(0,10000),(10000,inf)], growth bins
\* [(0,0.08),(0.08,inf)] and current 15000, prior 12000 give (1,1).
C13_TierIsContainingBin ==
    (phase = "configured" /\ Contiguous(volume_bins) /\ Contiguous(growth_bins)) =>
        /\ \A i \in DOMAIN df_base, k \in DOMAIN volume_bins, l \in DOMAIN growth_bins :
              LET cur == df_base[i].curryr_rev
                  g == FDiv(cur - df_base[i].prevyr_rev, df_base[i].prevyr_rev)
              IN (/\ volume_bins[k][1] < cur /\ cur < volume_bins[k][2]
                  /\ FLt(EdgeFloat(growth_bins[l][1], 1000), g)
                  /\ FLt(g, EdgeFloat(growth_bins[l][2], 1000)))
                 => /\ RowsOf(i) # {}
                    /\ \A j \in RowsOf(i) :
                          /\ df_processed.rows[j].v_idx = k - 1
                          /\ df_processed.rows[j].g_idx = l - 1
        /\ \A j \in DOMAIN df_processed.rows :
              LET row == df_processed.rows[j]
              IN /\ row.v_idx \in 0..(Rows - 1) /\ row.g_idx \in 0..(Cols - 1)
                 /\ volume_bins[row.v_idx + 1][1] <= row.curryr_rev
                 /\ row.curryr_rev <= volume_bins[row.v_idx + 1][2]
                 /\ FLe(EdgeFloat(growth_bins[row.g_idx + 1][1], 1000), row.growth_val)
                 /\ FLe(row.growth_val, EdgeFloat(growth_bins[row.g_idx + 1][2], 1000))

C13_Witness ==
    /\ phase = "configured"
    /\ volume_bins = << <<0, 10>>, <<10, Inf>> >>
    /\ growth_bins = << <<0, 80>>, <<80, Inf>> >>
    /\ \E j \in DOMAIN df_processed.rows :
          /\ df_processed.rows[j].curryr_rev = 15
          /\ df_processed.rows[j].prevyr_rev = 12
          /\ df_processed.rows[j].v_idx = 1
          /\ df_processed.rows[j].g_idx = 1
\* the accounts of df_base that set_bins puts in cell (v, g)
Members(v, g) ==
    {i \in DOMAIN df_base :
        /\ VIdx(df_base[i].curryr_rev, Edges(volume_bins, 1)) = v
        /\ GIdx(GrowthVal(df_base[i].curryr_rev, df_base[i].prevyr_rev),
                Edges(growth_bins, 1000)) = g}

RECURSIVE SumCurrent(_)
\* the sum of curryr_rev over a set of accounts of df_base
SumCurrent(S) ==
    IF S = {} THEN 0
    ELSE LET i == CHOOSE m \in S : TRUE
         IN df_base[i].curryr_rev + SumCurrent(S \ {i})

\* C14: after set_bins the aggregate has exactly one row for each cell that
\* holds an account with both tier indices valid, with the sum of the revenue
\* of exactly those accounts, no row for an unoccupied cell, and no row that an
\* account with an invalid index contributes to.
C14_AggregatePerOccupiedCell ==
    phase = "configured" =>
        /\ \A k \in DOMAIN agg_data.rows :
              /\ agg_data.rows[k].v_idx \in 0..(Rows - 1)
              /\ agg_data.rows[k].g_idx \in 0..(Cols - 1)
        /\ \A v \in 0..(Rows - 1), g \in 0..(Cols - 1) :
              LET hits == {k \in DOMAIN agg_data.rows :
                              /\ agg_data.rows[k].v_idx = v
                              /\ agg_data.rows[k].g_idx = g}
              IN IF Members(v, g) = {} THEN hits = {}
                 ELSE /\ Cardinality(hits) = 1
                      /\ \A k \in hits :
                            agg_data.rows[k].rev = SumCurrent(Members(v, g))

C14_Witness ==
    /\ phase = "configured"
    /\ Rows * Cols > 1
    /\ Len(df_base) = 2
    /\ Len(df_processed.rows) = 2 /\ Len(agg_data.rows) = 1
    /\ agg_data.rows[1].rev = df_base[1].curryr_rev + df_base[2].curryr_rev

\* the aggregate rows as a set of indices, and the flat index of a row's cell
AggCell(k) == agg_data.rows[k].v_idx * Cols + agg_data.rows[k].g_idx

RECURSIVE SumNetOver(_, _)
\* the sum over the aggregate rows S of B * (1 + elasticity * x) * (1 - x),
\* in the fixed-point scale of the objective
SumNetOver(S, rates) ==
    IF S = {} THEN 0
    ELSE LET k == CHOOSE m \in S : TRUE
             xm == rates[AggCell(k)] \div 1000000
         IN agg_data.rows[k].rev * (2000 + elasticity * xm) * (1000 - xm)
            + SumNetOver(S \ {k}, rates)

\* C15: objective_function(x) is minus the sum over the aggregate rows
\* (v, g, B) of B * (1 + elasticity * x[v*cols+g]) * (1 - x[v*cols+g]); the
\* rate of a cell absent from the aggregate does not change it; and the second
\* value optimize() returns is minus the objective at the returned grid.
C15_ObjectiveIsNegatedNetRevenue ==
    Started =>
        /\ fun = 0 - SumNetOver(DOMAIN agg_data.rows, x)
        /\ \A c \in DOMAIN x, r \in {0, MinRate, MaxRate} :
              (\A k \in DOMAIN agg_data.rows : AggCell(k) # c) =>
                  ObjectiveFunction([x EXCEPT ![c] = r], volume_bins, growth_bins,
                                    agg_data, elasticity).value = fun
        /\ phase \in {"converged", "failed"} =>
              /\ ret.best_grid = Reshape(result.x, Rows, Cols)
              /\ ret.max_rev = SumNetOver(DOMAIN agg_data.rows, result.x)

C15_Witness ==
    /\ phase = "converged"
    /\ Len(agg_data.rows) = 2
    /\ Rows * Cols > 2
    /\ \E c \in DOMAIN x : x[c] > 0 /\ \A k \in DOMAIN agg_data.rows : AggCell(k) # c
    /\ \E k \in DOMAIN agg_data.rows : x[AggCell(k)] > 0
    /\ ret.max_rev > 0
\* column c (zero-based) is not a no-rebate column
NonExempt(c) == growth_bins[c + 1][2] > 80

\* C16: get_constraints returns None exactly when it generated no inequality:
\* when no column is non-exempt, or rows = 1 and no two adjacent columns are
\* both non-exempt; optimize() then passes the solver an empty constraint
\* list, and the one constraint object otherwise, and runs with its box
\* bounds.
C16_NoConstraintsIsNone ==
    /\ cons_arg >= 0 =>
          (cons.none <=>
              \/ \A c \in 0..(Cols - 1) : ~NonExempt(c)
              \/ /\ Rows = 1
                 /\ \A c \in 1..(Cols - 1) : ~(NonExempt(c - 1) /\ NonExempt(c)))
    /\ cons_arg >= 0 => (cons.none <=> cons.A = <<>>)
    /\ Started =>
          /\ constraints_arg = IF cons.none THEN <<>> ELSE <<cons>>
          /\ DOMAIN bounds = 0..(Rows * Cols - 1)

C16_Witness ==
    /\ phase = "converged"
    /\ cons.none /\ constraints_arg = <<>>
    /\ Rows = 1 /\ Cols = 3
    /\ NonExempt(0) /\ ~NonExempt(1) /\ NonExempt(2)
    /\ ret.best_grid # <<>>
\* C17: for every grid shape and exemption pattern the initial guess of
\* optimize() lies within the box bounds of its cell: 0 in an exempt cell, and
\* 0.01 + (r + c) * 0.01 clipped to [0.01, 0.15] in a non-exempt cell (r, c).
C17_InitialGuessWithinBounds ==
    Started =>
        \A k \in DOMAIN initial_guess :
            LET r == k \div Cols
                c == k % Cols
                raw == MinRate + (r + c) * GuessStep
            IN /\ bounds[k][1] <= initial_guess[k]
               /\ initial_guess[k] <= bounds[k][2]
               /\ initial_guess[k] =
                     IF ~NonExempt(c) THEN 0
                     ELSE IF raw > MaxRate THEN MaxRate ELSE raw
\* C18: compute_rebate gives rate[(volume_tier, growth_tier)] * current
\* revenue to an account whose tier pair is in the rate grid, and a zero
\* rebate, without raising, to every account whose volume tier or growth tier
\* is unassigned.
C18_ZeroRebateWhenUnassigned ==
    rebate.done =>
        /\ ~rebate.raised
        /\ (g_tiers.v_idx >= 0 /\ g_tiers.g_idx >= 0) =>
              LET rate == parsed.rebate_rates[g_tiers.v_idx + 1][g_tiers.g_idx + 1]
              IN /\ IsFinite(rebate.value)
                 /\ rebate.value[1] * (rate[2] * g_cur[2])
                      = (rate[1] * g_cur[1]) * rebate.value[2]
        /\ (g_tiers.v_idx < 0 \/ g_tiers.g_idx < 0) =>
              (IsFinite(rebate.value) /\ rebate.value[1] = 0)

\* C19: encoding a rate grid as the table save_results or /optimize produces
\* and parsing that table with parse_grid gives back the same number of volume
\* tiers and growth tiers and the same rates within half a percentage point.
C19_GridRoundTrip ==
    (g_from \in {"save_results", "optimize"} /\ parsed.done) =>
        /\ ~parsed.raised
        /\ Len(parsed.volume_bins) = Len(g_src.volume_bins)
        /\ Len(parsed.growth_bins) - 1 = Len(g_src.growth_bins)
        /\ \A r \in DOMAIN g_src.volume_bins, c \in DOMAIN g_src.growth_bins :
              LET rate == parsed.rebate_rates[r][c]
                  nano == rate[1] * (1000000000 \div rate[2])
                  d == nano - g_src.best_grid[r - 1][c - 1]
              IN 0 - 5000000 <= d /\ d <= 5000000

\* the row labels of a typed table that read "<lower>+" or "<lower>-<upper>"
IsPlusLabel(l) == Len(l) = 2 /\ l[1][1] = "num" /\ l[2][1] = "plus"
IsRangeLabel(l) ==
    Len(l) = 3 /\ l[1][1] = "num" /\ l[2][1] = "minus" /\ l[3][1] = "num"
GoodLabel(row) == IsPlusLabel(row[1]) \/ IsRangeLabel(row[1])
\* the columns of a typed table whose header is a number
NumericHeaders == {j \in 2..Len(grid_data[1]) :
                      Len(grid_data[1][j]) = 1 /\ grid_data[1][j][1][1] = "num"}

\* C20: parse_grid maps a label "<lower>+" to the bin (lower, infinity) and
\* "<lower>-<upper>" to (lower, upper), and n numeric growth headers to n
\* finite growth bins plus one final unbounded bin above the largest header:
\* n + 1 growth tiers.
C20_LabelsAndHeadersParsed ==
    (g_from = "typed" /\ parsed.done /\ ~parsed.raised) =>
        LET good == SelectSeq(Tail(grid_data), GoodLabel)
            n == Cardinality(NumericHeaders)
            edges == parsed.growth_bins
        IN /\ Len(parsed.volume_bins) = Len(good)
           /\ \A k \in DOMAIN good :
                 LET l == good[k][1]
                 IN parsed.volume_bins[k] =
                      IF IsPlusLabel(l) THEN << <<l[1][2], l[1][3]>>, PosInf >>
                      ELSE << <<l[1][2], l[1][3]>>, <<l[3][2], l[3][3]>> >>
           /\ edges[Len(edges)] = PosInf
           /\ \A j \in NumericHeaders :
                 FLe(<<grid_data[1][j][1][2], grid_data[1][j][1][3]>>,
                     edges[Len(edges) - 1])
           /\ Len(edges) - 1 = n + 1
\* the cell parse_grid reads for the rate stored under (V<i>, G<j>)
RateCell(i, j) == CellAt(Tail(grid_data)[i], j + 1)
IsBareNumber(cell) == Len(cell) = 1 /\ cell[1][1] = "num"
IsPercent(cell) == Len(cell) = 2 /\ cell[1][1] = "num" /\ cell[2][1] = "pct"

\* C21: parse_grid turns a rate cell with a percent marker into number/100, a
\* bare number greater than 1.0 into number/100, and keeps a bare number not
\* greater than 1.0 unchanged: '5%' gives 0.05, 7 gives 0.07, 0.03 gives 0.03.
C21_RateCellConversion ==
    (g_from = "typed" /\ parsed.done /\ ~parsed.raised) =>
        \A i \in DOMAIN parsed.rebate_rates :
            \A j \in DOMAIN parsed.rebate_rates[i] :
                LET cell == RateCell(i, j)
                    n == cell[1][2]
                    d == cell[1][3]
                    rate == parsed.rebate_rates[i][j]
                IN /\ IsPercent(cell) => FEq(rate, <<n, d * 100>>)
                   /\ (IsBareNumber(cell) /\ n > d) => FEq(rate, <<n, d * 100>>)
                   /\ (IsBareNumber(cell) /\ n <= d) => FEq(rate, <<n, d>>)

C21_Witness ==
    /\ g_from = "typed" /\ parsed.done /\ ~parsed.raised
    /\ RateCell(2, 1) = <<Num(5, 1), Tok("pct")>>
    /\ FEq(parsed.rebate_rates[2][1], <<5, 100>>)
    /\ RateCell(2, 2) = <<Num(7, 1)>>
    /\ FEq(parsed.rebate_rates[2][2], <<7, 100>>)
    /\ RateCell(1, 2) = <<Num(3, 100)>>
    /\ FEq(parsed.rebate_rates[1][2], <<3, 100>>)
\* the data row of the typed table whose label gave the i-th volume bin, and
\* the column whose header gave the j-th growth edge
LabelParsed(r) == VolumeBinOf(CellAt(Tail(grid_data)[r], 1)).ok
RowOfBin(i) ==
    CHOOSE r \in DOMAIN Tail(grid_data) :
        /\ LabelParsed(r)
        /\ Cardinality({q \in 1..(r - 1) : LabelParsed(q)}) = i - 1
HeaderParsed(c) == ParseFloat(grid_data[1][c]).ok
ParsedHeaders == {c \in 2..Len(grid_data[1]) : HeaderParsed(c)}
ColOfEdge(j) ==
    CHOOSE c \in ParsedHeaders :
        Cardinality({b \in ParsedHeaders :
                        FLt(ParseFloat(grid_data[1][b]).val,
                            ParseFloat(grid_data[1][c]).val)}) = j - 1

\* C22: parse_grid never aborts on a malformed volume-bin label, a
\* non-numeric growth header or a non-numeric rate cell: it returns normally,
\* the offending row or column is skipped, an offending cell of a kept row and
\* column has rate 0, and every well-formed cell of a kept row and column
\* keeps its own parsed rate.
C22_ParseNeverAborts ==
    (g_from = "typed" /\ parsed.done) =>
        /\ ~parsed.raised
        /\ Len(parsed.volume_bins) = Len(SelectSeq(Tail(grid_data), GoodLabel))
        /\ Len(parsed.growth_bins) - 1 = Cardinality(NumericHeaders)
        /\ \A i \in DOMAIN parsed.volume_bins :
              \A j \in 1..(Len(parsed.growth_bins) - 1) :
                 LET cell == Tail(grid_data)[RowOfBin(i)][ColOfEdge(j)]
                     rate == parsed.rebate_rates[i][j]
                 IN IF IsBareNumber(cell) \/ IsPercent(cell)
                    THEN FEq(rate, ParseRate(cell))
                    ELSE FEq(rate, <<0, 1>>)
\* C27: in parse_grid the rate stored under (V_i, G_j) is the cell of the grid
\* row whose label produced the i-th volume bin and of the column whose header
\* produced the j-th growth edge, also when an earlier row was skipped as
\* malformed, when a header was skipped as non-numeric and when the headers
\* are not in ascending order.
C27_RateAlignment ==
    (g_from = "typed" /\ parsed.done /\ ~parsed.raised) =>
        /\ DOMAIN parsed.rebate_rates = DOMAIN parsed.volume_bins
        /\ \A i \in DOMAIN parsed.rebate_rates :
              /\ DOMAIN parsed.rebate_rates[i] = 1..(Len(parsed.growth_bins) - 1)
              /\ \A j \in DOMAIN parsed.rebate_rates[i] :
                    parsed.rebate_rates[i][j] =
                        ParseRate(CellAt(Tail(grid_data)[RowOfBin(i)], ColOfEdge(j)))
C24_AggregateMatchesBins ==
    /\ volume_bins # <<>> =>
          /\ agg_data.defined
          /\ \A k \in DOMAIN agg_data.rows :
                /\ 0 <= agg_data.rows[k].v_idx /\ agg_data.rows[k].v_idx < Rows
                /\ 0 <= agg_data.rows[k].g_idx /\ agg_data.rows[k].g_idx < Cols
          /\ \A v \in 0..(Rows - 1), g \in 0..(Cols - 1) :
                \A k \in DOMAIN agg_data.rows :
                    (agg_data.rows[k].v_idx = v /\ agg_data.rows[k].g_idx = g) =>
                        /\ Members(v, g) # {}
                        /\ agg_data.rows[k].rev = SumCurrent(Members(v, g))
          /\ \A v \in 0..(Rows - 1), g \in 0..(Cols - 1) :
                Members(v, g) # {} =>
                    \E k \in DOMAIN agg_data.rows :
                        agg_data.rows[k].v_idx = v /\ agg_data.rows[k].g_idx = g
    /\ Started => (volume_bins # <<>> /\ growth_bins # <<>> /\ agg_data.defined)
\* the cells an inequality of get_constraints compares
PlusCell(row) == CHOOSE k \in DOMAIN row : row[k] = 1
MinusCell(row) == CHOOSE k \in DOMAIN row : row[k] = 0 - 1

\* C25: the initial guess optimize() builds satisfies every inequality of
\* get_constraints(min_increment=0.01): for all adjacent non-exempt cells
\* guess[r,c] - guess[r-1,c] >= 0.01 and guess[r,c] - guess[r,c-1] >= 0.01,
\* for every grid shape.
C25_InitialGuessFeasible ==
    (Started /\ ~cons.none) =>
        LET guess == InitialGuessDouble(volume_bins, growth_bins)
        IN \A i \in DOMAIN cons.A :
              BigGe(guess[PlusCell(cons.A[i])],
                    BigAdd(guess[MinusCell(cons.A[i])], Double001))
\* C26: for every bins argument and every outcome of the random draws the
\* grid of generate_monotonic_grid has rate 0 in every no-rebate column, every
\* other rate in [0.01, 0.15], and rates that never decrease towards a higher
\* volume tier in a non-exempt column nor towards a higher growth tier in a
\* row among non-exempt cells.
C26_GeneratedGridMonotonic ==
    g_pc = "generated" =>
        LET grid == g_src.best_grid
            rows == Len(g_src.volume_bins)
            cols == Len(g_src.growth_bins)
        IN \A r \in 0..(rows - 1), c \in 0..(cols - 1) :
              IF Exempt(g_src.growth_bins, c) THEN grid[r][c] = 0
              ELSE /\ MinRate <= grid[r][c] /\ grid[r][c] <= MaxRate
                   /\ r > 0 => grid[r][c] >= grid[r - 1][c]
                   /\ \A b \in 0..(c - 1) :
                         ~Exempt(g_src.growth_bins, b) => grid[r][c] >= grid[r][b]

\* the rate-grid invariant on a grid of rates in unit (0.01 is unit): the box
\* bounds, and an increment of 0.01 between adjacent non-exempt cells
RateGridInvariant(rate, rows, cols, gb, unit) ==
    \A r \in 0..(rows - 1), c \in 0..(cols - 1) :
        IF Exempt(gb, c) THEN rate[r][c] = 0
        ELSE /\ unit <= rate[r][c] /\ rate[r][c] <= 15 * unit
             /\ r > 0 => rate[r][c] >= rate[r - 1][c] + unit
             /\ (c > 0 /\ ~Exempt(gb, c - 1)) => rate[r][c] >= rate[r][c - 1] + unit

\* the rates save_results or /optimize show, in whole percents
ShownRates == [r \in 0..(Len(grid_data) - 2) |->
                 [c \in 0..(Len(grid_data[1]) - 2) |-> grid_data[r + 2][c + 2][1][2]]]

\* C28: when the grid optimize() returned satisfies the box bounds and the
\* 0.01 increments between adjacent non-exempt cells, so does the grid rounded
\* to two decimals that save_results and /optimize show.
C28_RoundingKeepsInvariant ==
    (/\ g_pc = "table" /\ g_from \in {"save_results", "optimize"}
     /\ RateGridInvariant(g_src.best_grid, Len(g_src.volume_bins),
                          Len(g_src.growth_bins), g_src.growth_bins, MinIncrement))
    => RateGridInvariant(ShownRates, Len(g_src.volume_bins),
                         Len(g_src.growth_bins), g_src.growth_bins, 1)

\* the cell a constraint row subtracts
MinusCol(row) == CHOOSE j \in DOMAIN row : row[j] = 0 - 1

RECURSIVE LeastValue(_, _, _)
\* the least value cell k can take under the lower bounds b and the rows of
\* c, in exact arithmetic on the float64 coefficients; every row subtracts an
\* earlier cell
LeastValue(k, c, b) ==
    LET rows_k == IF c.none THEN {} ELSE {i \in DOMAIN c.A : c.A[i][k] = 1}
        cand == {DoubleOf(b[k][1])} \cup
                {BigAdd(LeastValue(MinusCol(c.A[i]), c, b), DoubleOf(c.lb[i])) :
                    i \in rows_k}
    IN CHOOSE m \in cand : \A o \in cand : BigGe(m, o)

\* some grid satisfies the bounds b and the inequalities c: the least
\* solution stays below every upper bound (a pinned cell stands in no row)
JointlySatisfiable(c, b) ==
    \A k \in DOMAIN b :
        IF b[k][2] = ExemptUpper THEN b[k][1] <= b[k][2]
        ELSE BigGe(DoubleOf(b[k][2]), LeastValue(k, c, b))

ExemptPrefix(gb) ==
    \A c \in 0..(Len(gb) - 1) : Exempt(gb, c) => \A a \in 0..c : Exempt(gb, a)

NonExemptCols(gb) == Cardinality({c \in 0..(Len(gb) - 1) : ~Exempt(gb, c)})

\* C29: with the bounds and min_increment of optimize() and the exempt
\* columns a prefix of the growth columns, the bounds and the inequalities of
\* get_constraints are jointly satisfiable exactly when
\* (rows - 1) + (k - 1) <= 14, k the number of non-exempt columns.
C29_SatisfiableIffShortChain ==
    (bounds # <<>> /\ cons_arg = MinIncrement /\ ExemptPrefix(growth_bins))
    => (JointlySatisfiable(cons, bounds)
        <=> (Len(volume_bins) - 1) + (NonExemptCols(growth_bins) - 1) <= 14)

\* the account is placed in a cell
Assigned(row) == row.v_idx >= 0 /\ row.g_idx >= 0

\* C30: for the same bin edges and the same account, app.py's
\* assign_tiers_from_bins, calculate_static and RebateOptimizer.set_bins place
\* the account in the same (volume tier, growth tier) cell, or all three leave
\* it unassigned.
C30_TierAssignmentsAgree ==
    (/\ st_app.done /\ st_static.done /\ st_opt.done
     /\ ~st_app.raised /\ ~st_static.raised /\ ~st_opt.raised)
    => \/ /\ Assigned(st_app) /\ Assigned(st_static) /\ Assigned(st_opt)
          /\ st_app.v_idx = st_static.v_idx /\ st_static.v_idx = st_opt.v_idx
          /\ st_app.g_idx = st_static.g_idx /\ st_static.g_idx = st_opt.g_idx
       \/ ~Assigned(st_app) /\ ~Assigned(st_static) /\ ~Assigned(st_opt)
====
